---- MODULE Spec2Model ----
(***************************************************************************)
(* Sovereign's Edict: comment ingestion, argument extraction (keyword     *)
(* heuristic and Gemini with local fallback), citation oracle, fusion     *)
(* engine, amendment generator and the FastAPI in-memory store.           *)
(*                                                                         *)
(* Texts are TLA+ strings handled character by character (SubSeq, Len).   *)
(* Python floats are modelled as exact rationals <<numerator, denominator>>*)
(* with a positive denominator, normalised by their gcd.                  *)
(* uuid.uuid4() is modelled as a monotone counter: every call returns a   *)
(* value never returned before.                                           *)
(***************************************************************************)
EXTENDS Integers, Sequences, FiniteSets, TLC

VARIABLES
    stored_comments,    \* stored_data["comments"]
    stored_arguments,   \* stored_data["arguments"]
    stored_policies,    \* stored_data["policies"]
    stored_citations,   \* stored_data["citations"]
    stored_gemini_key,  \* stored_data.get("gemini_key"), NoKey when absent
    env_gemini_key,     \* os.environ GEMINI_API_KEY, NoKey when unset
    uuid_counter,       \* number of uuid4 values handed out so far
    response,           \* the last HTTP response of the API
    h_comments,         \* harness: list of Comments given to an extractor
    h_replies,          \* harness: the external service's reply per comment;
                        \* for the generator, the Arguments it looked up
    h_arguments,        \* harness: list of Arguments given to a pure function
    h_result            \* harness: what the last applied function returned

vars == <<stored_comments, stored_arguments, stored_policies, stored_citations,
          stored_gemini_key, env_gemini_key, uuid_counter, response,
          h_comments, h_replies, h_arguments, h_result>>

api_vars == <<stored_comments, stored_arguments, stored_policies,
              stored_citations, stored_gemini_key, env_gemini_key,
              uuid_counter, response>>

harness_vars == <<h_comments, h_replies, h_arguments, h_result>>

----------------------------------------------------------------------------
(* Generic helpers *)

Range(s) == {s[i] : i \in 1..Len(s)}

RECURSIVE SeqSum(_)
SeqSum(s) == IF s = <<>> THEN 0 ELSE Head(s) + SeqSum(Tail(s))

RECURSIVE FlattenSeq(_)
FlattenSeq(ss) == IF ss = <<>> THEN <<>> ELSE Head(ss) \o FlattenSeq(Tail(ss))

\* The values of s in order of first occurrence (the key order of a dict
\* filled by iterating s).
RECURSIVE FirstSeen(_)
FirstSeen(s) ==
    IF s = <<>> THEN <<>>
    ELSE LET rest == FirstSeen(SubSeq(s, 1, Len(s) - 1))
             last == s[Len(s)]
         IN  IF last \in Range(rest) THEN rest ELSE Append(rest, last)

\* [items[i] for i in range(len(items)) if keep[i]]
RECURSIVE FilterBy(_, _)
FilterBy(items, keep) ==
    IF items = <<>> THEN <<>>
    ELSE LET last == Len(items)
             rest == FilterBy(SubSeq(items, 1, last - 1), SubSeq(keep, 1, last - 1))
         IN  IF keep[last] THEN Append(rest, items[last]) ELSE rest

Min2(a, b) == IF a <= b THEN a ELSE b
Max2(a, b) == IF a >= b THEN a ELSE b

----------------------------------------------------------------------------
(* Exact rationals standing for Python floats *)

Abs(n) == IF n < 0 THEN -n ELSE n

RECURSIVE Gcd(_, _)
Gcd(a, b) == IF b = 0 THEN a ELSE Gcd(b, a % b)

Rat(n, d) ==
    IF n = 0 THEN <<0, 1>> ELSE <<n \div Gcd(Abs(n), d), d \div Gcd(Abs(n), d)>>

RAdd(a, b) == Rat(a[1] * b[2] + b[1] * a[2], a[2] * b[2])
RMul(a, b) == Rat(a[1] * b[1], a[2] * b[2])
RLe(a, b) == a[1] * b[2] <= b[1] * a[2]
RMin(a, b) == IF RLe(a, b) THEN a ELSE b
RMax(a, b) == IF RLe(a, b) THEN b ELSE a
RInt(n) == <<n, 1>>

RZero == <<0, 1>>
ROne == <<1, 1>>

----------------------------------------------------------------------------
(* Python str operations *)

Char(s, i) == SubSeq(s, i, i)

UpperLetters == "ABCDEFGHIJKLMNOPQRSTUVWXYZ"
LowerLetters == "abcdefghijklmnopqrstuvwxyz"
Digits == "0123456789"

CharIn(c, s) == \E i \in 1..Len(s) : Char(s, i) = c

\* str.lower() on one character
LowerChar(c) ==
    IF CharIn(c, UpperLetters)
    THEN Char(LowerLetters, CHOOSE i \in 1..Len(UpperLetters) : Char(UpperLetters, i) = c)
    ELSE c

\* The concatenation pieces[lo] \o ... \o pieces[hi] (by halves, to keep the
\* evaluation shallow)
RECURSIVE ConcatRange(_, _, _)
ConcatRange(pieces, lo, hi) ==
    IF lo > hi THEN ""
    ELSE IF lo = hi THEN pieces[lo]
    ELSE LET mid == (lo + hi) \div 2
         IN  ConcatRange(pieces, lo, mid) \o ConcatRange(pieces, mid + 1, hi)

\* ''.join(pieces)
Concat(pieces) == ConcatRange(pieces, 1, Len(pieces))

\* str.lower()
str_lower(s) == Concat([i \in 1..Len(s) |-> LowerChar(Char(s, i))])

\* \s of the re module
IsSpace(c) == c \in {" ", "\t", "\n"}

\* \w of the re module
IsWordChar(c) == CharIn(c, LowerLetters) \/ CharIn(c, UpperLetters) \/ CharIn(c, Digits) \/ c = "_"

\* re.sub(r'\s+', ' ', s): every maximal run of whitespace becomes one space
CollapseWhitespace(s) ==
    Concat([i \in 1..Len(s) |->
               IF ~IsSpace(Char(s, i)) THEN Char(s, i)
               ELSE IF i > 1 /\ IsSpace(Char(s, i - 1)) THEN ""
               ELSE " "])

\* the class [\w\s.,;:!?()-]
IsKeptChar(c) == IsWordChar(c) \/ IsSpace(c) \/ CharIn(c, ".,;:!?()-")

\* re.sub(r'[^\w\s.,;:!?()-]', '', s)
RemoveSpecial(s) ==
    Concat([i \in 1..Len(s) |-> IF IsKeptChar(Char(s, i)) THEN Char(s, i) ELSE ""])

SetMin(S) == CHOOSE x \in S : \A y \in S : x <= y
SetMax(S) == CHOOSE x \in S : \A y \in S : x >= y

\* str.strip()
str_strip(s) ==
    LET solid == {i \in 1..Len(s) : ~IsSpace(Char(s, i))}
    IN  IF solid = {} THEN "" ELSE SubSeq(s, SetMin(solid), SetMax(solid))

\* s[i:i+len(k)] == k
MatchAt(s, k, i) == i + Len(k) - 1 <= Len(s) /\ SubSeq(s, i, i + Len(k) - 1) = k

\* k in s
str_in(k, s) == \E i \in 1..(Len(s) + 1) : MatchAt(s, k, i)

\* s.count(k) for a non-empty k: non-overlapping occurrences, left to right
RECURSIVE CountFrom(_, _, _)
CountFrom(s, k, i) ==
    LET matches == {m \in i..Len(s) : MatchAt(s, k, m)}
    IN  IF matches = {} THEN 0 ELSE 1 + CountFrom(s, k, SetMin(matches) + Len(k))

str_count(s, k) == CountFrom(s, k, 1)

\* s.split(): the maximal runs of non-whitespace, in order
str_split(s) ==
    LET starts == {i \in 1..Len(s) : /\ ~IsSpace(Char(s, i))
                                     /\ (i = 1 \/ IsSpace(Char(s, i - 1)))}
        EndOf(i) == SetMin({j \in i..Len(s) : j = Len(s) \/ IsSpace(Char(s, j + 1))})
        StartNo(k) == CHOOSE i \in starts : Cardinality({j \in starts : j < i}) = k - 1
    IN  [k \in 1..Cardinality(starts) |-> SubSeq(s, StartNo(k), EndOf(StartNo(k)))]

\* ', '.join(parts)
RECURSIVE str_join(_)
str_join(parts) ==
    IF parts = <<>> THEN ""
    ELSE IF Len(parts) = 1 THEN parts[1]
    ELSE parts[1] \o ", " \o str_join(Tail(parts))

----------------------------------------------------------------------------
(* Input pools: the texts, clauses and Argument contents the specifications *)
(* draw their inputs from                                                  *)

ClausePool == {"Section 7(a)", "Section 2"}

\* comment texts of the heuristic analysis runs
PipelineTexts ==
    {"I support this good benefit",
     "I am against this, serious problem",
     "Bad, bad, BAD but good benefit",
     "I disagree",
     "No opinion"}

\* comment texts exercising normalization, themes and confidence
TextPool ==
    {"Bad law: cost & privacy",
     "Mass surveillance!",
     "No opinion",
     "  Good  SOFTWARE, good process  ",
     "I think this is a good idea for all of us here today",
     "Unlawful system"}

CommentTexts ==
    {"I support this good benefit",
     "I am against this, serious problem",
     "No opinion",
     "Sup*port for  personal  data",
     "Strict data privacy regulations hurt the economy!",
     ""} \cup PipelineTexts \cup TextPool

FusionTexts == {"privacy concern", "good law"}

\* texts of the Arguments looked up in the citation oracle
CiteTexts ==
    {"data protection regulation",
     "data privacy",
     "Data data PRIVACY",
     "the privacy rights",
     "privacy, data and the law",
     "strict data privacy regulations hurt the economy",
     "no opinion"}

EchoText == "repeal this clause"
OtherText == "keep this clause"

\* text and themes of the Arguments fed to the amendment generator
AmendContents ==
    {[text |-> "bad for privacy rights under the indian constitution.",
      themes |-> <<"privacy", "legal">>],
     [text |-> "strict data privacy regulations hurt the economy",
      themes |-> <<"economic", "privacy">>],
     [text |-> "no opinion", themes |-> <<"general">>]}

----------------------------------------------------------------------------
(* models/argument.py *)

SUPPORT == "support"
OBJECTION == "objection"
NEUTRAL == "neutral"
ArgumentType == {SUPPORT, OBJECTION, NEUTRAL}

Argument(id, comment_id, text, type, themes, clause, confidence, citations) ==
    [id |-> id, comment_id |-> comment_id, text |-> text, type |-> type,
     themes |-> themes, clause |-> clause, confidence |-> confidence,
     citations |-> citations]

(* models/comment.py: the fields the pipeline reads *)
Comment(id, text, policy_clause) ==
    [id |-> id, text |-> text, policy_clause |-> policy_clause]

----------------------------------------------------------------------------
(* mining/extractor.py *)

preprocess_text(text) == str_strip(RemoveSpecial(CollapseWhitespace(str_lower(text))))

support_keywords == <<"support", "agree", "good", "benefit", "positive", "favor">>
objection_keywords == <<"against", "disagree", "bad", "negative", "concern", "problem", "issue">>

\* sum(1 for keyword in keywords if keyword in text)
KeywordsPresent(keywords, text) ==
    Cardinality({i \in 1..Len(keywords) : str_in(keywords[i], text)})

\* sum(text.count(keyword) for keyword in keywords)
KeywordOccurrences(keywords, text) ==
    SeqSum([i \in 1..Len(keywords) |-> str_count(text, keywords[i])])

StanceOf(support_count, objection_count) ==
    IF support_count > objection_count THEN SUPPORT
    ELSE IF objection_count > support_count THEN OBJECTION
    ELSE NEUTRAL

\* Faulty variant of detect_argument_type: every occurrence of a keyword
\* counts (text_lower.count(keyword)), as in calculate_confidence.
detect_argument_type_by_occurrences(text) ==
    LET text_lower == str_lower(text)
    IN  StanceOf(KeywordOccurrences(support_keywords, text_lower),
                 KeywordOccurrences(objection_keywords, text_lower))

detect_argument_type(text) ==
    LET text_lower == str_lower(text)
    IN  StanceOf(KeywordsPresent(support_keywords, text_lower),
                 KeywordsPresent(objection_keywords, text_lower))

theme_names == <<"privacy", "economic", "legal", "technical", "implementation">>

theme_keywords ==
    [privacy |-> <<"privacy", "personal data", "surveillance", "monitoring">>,
     economic |-> <<"cost", "expense", "money", "financial", "economy">>,
     legal |-> <<"law", "legal", "constitution", "rights">>,
     technical |-> <<"technology", "technical", "system", "software">>,
     implementation |-> <<"implement", "process", "procedure", "execute">>]

\* Faulty variant of ThemeMatches: only the first keyword of a theme is tried.
ThemeMatches_first_keyword_only(theme, text) ==
    str_in(theme_keywords[theme][1], text)

ThemeMatches(theme, text) ==
    \E i \in 1..Len(theme_keywords[theme]) : str_in(theme_keywords[theme][i], text)

ThemesOfLowered(text_lower) ==
    LET Hit(theme) == ThemeMatches(theme, text_lower)
        themes == SelectSeq(theme_names, Hit)
    IN  IF themes = <<>> THEN <<"general">> ELSE themes

extract_themes(text) == ThemesOfLowered(str_lower(text))

\* Faulty variant of calculate_confidence: the sum is returned as it is,
\* without max(0.0, min(1.0, confidence)).
calculate_confidence_unclamped(text, argument_type, themes) ==
    LET text_lower == str_lower(text)
        base == Rat(5, 10)
        typed == IF argument_type # NEUTRAL THEN RAdd(base, Rat(2, 10)) ELSE base
        themed == RAdd(typed, RMin(Rat(Len(themes), 10), Rat(3, 10)))
        support_count == KeywordOccurrences(support_keywords, text_lower)
        objection_count == KeywordOccurrences(objection_keywords, text_lower)
        keyword_density == Rat(support_count + objection_count,
                               Max2(Len(str_split(text_lower)), 1))
    IN  RAdd(themed, RMin(RMul(keyword_density, RInt(2)), Rat(2, 10)))

calculate_confidence(text, argument_type, themes) ==
    LET text_lower == str_lower(text)
        base == Rat(5, 10)
        typed == IF argument_type # NEUTRAL THEN RAdd(base, Rat(2, 10)) ELSE base
        themed == RAdd(typed, RMin(Rat(Len(themes), 10), Rat(3, 10)))
        support_count == KeywordOccurrences(support_keywords, text_lower)
        objection_count == KeywordOccurrences(objection_keywords, text_lower)
        keyword_density == Rat(support_count + objection_count,
                               Max2(Len(str_split(text_lower)), 1))
        confidence == RAdd(themed, RMin(RMul(keyword_density, RInt(2)), Rat(2, 10)))
    IN  RMax(RZero, RMin(ROne, confidence))

\* What the loop body of extract_arguments derives from comment.text
HeuristicFields(text) ==
    [text |-> preprocess_text(text),
     type |-> detect_argument_type(preprocess_text(text)),
     themes |-> extract_themes(preprocess_text(text)),
     confidence |-> calculate_confidence(preprocess_text(text),
                                         detect_argument_type(preprocess_text(text)),
                                         extract_themes(preprocess_text(text)))]

\* HeuristicFields of the pool texts, evaluated once
HeuristicFieldsOfPool == [t \in CommentTexts |-> HeuristicFields(t)]

\* The Argument extract_arguments builds for one comment; id is the uuid4 drawn.
HeuristicArgument(comment, id) ==
    LET fields == IF comment.text \in CommentTexts
                  THEN HeuristicFieldsOfPool[comment.text]
                  ELSE HeuristicFields(comment.text)
    IN  Argument(id, comment.id, fields.text, fields.type, fields.themes,
                 comment.policy_clause, fields.confidence, <<>>)

\* extract_arguments(comments); uuid0 is the number of uuids drawn before
extract_arguments(comments, uuid0) ==
    [i \in 1..Len(comments) |-> HeuristicArgument(comments[i], uuid0 + i)]

----------------------------------------------------------------------------
(* mining/gemini_extractor.py *)

(* A reply of the external service to one generate_content call:            *)
(*   kind "error"     the call (or reading response.text) raises            *)
(*   kind "malformed" the text, once stripped of its code fence, is not JSON*)
(*   kind "nondict"   valid JSON that is not an object (a list, a number)   *)
(*   kind "json"      a JSON object; each key may be missing                *)
(* themes/citations: tag "missing" | "list" | "scalar" (a non-list value,   *)
(* val holding its str()); confidence: tag "missing" | "number" |           *)
(* "invalid" (a value pydantic cannot coerce to float, such as "high").     *)
MissingKey == "<missing>"

Reply(kind, type, themes, confidence, citations) ==
    [kind |-> kind, type |-> type, themes |-> themes,
     confidence |-> confidence, citations |-> citations]

Field(tag, val) == [tag |-> tag, val |-> val]

\* The dict _parse_gemini_response returns, or "raise" when an exception
\* other than JSONDecodeError leaves it.
ParseDefaults ==
    [outcome |-> "ok", type |-> NEUTRAL, themes |-> Field("list", <<"general">>),
     confidence |-> Field("number", Rat(5, 10)), citations |-> Field("list", <<>>)]

ParseRaised ==
    [outcome |-> "raise", type |-> NEUTRAL, themes |-> Field("missing", <<>>),
     confidence |-> Field("missing", RZero), citations |-> Field("missing", <<>>)]

EnsureList(field) == IF field.tag = "scalar" THEN Field("list", field.val) ELSE field

parse_gemini_response(reply) ==
    IF reply.kind = "malformed" THEN ParseDefaults
    ELSE IF reply.kind = "nondict" THEN ParseRaised
    ELSE [outcome |-> "ok",
          type |-> IF reply.type = SUPPORT THEN SUPPORT
                   ELSE IF reply.type = OBJECTION THEN OBJECTION
                   ELSE NEUTRAL,
          themes |-> EnsureList(reply.themes),
          confidence |-> reply.confidence,
          citations |-> EnsureList(reply.citations)]

\* dict.get(key, default) on a parsed field
GetOr(field, default) == IF field.tag = "missing" THEN default ELSE field.val

\* What _create_fallback_argument derives from comment.text
FallbackFields(text) ==
    [type |-> StanceOf(KeywordsPresent(support_keywords, str_lower(text)),
                       KeywordsPresent(objection_keywords, str_lower(text))),
     themes |-> ThemesOfLowered(str_lower(text))]

\* FallbackFields of the pool texts, evaluated once
FallbackFieldsOfPool == [t \in CommentTexts |-> FallbackFields(t)]

\* _create_fallback_argument(comment); id is the uuid4 drawn
create_fallback_argument(comment, id) ==
    LET fields == IF comment.text \in CommentTexts
                  THEN FallbackFieldsOfPool[comment.text]
                  ELSE FallbackFields(comment.text)
    IN  Argument(id, comment.id, comment.text, fields.type, fields.themes,
                 comment.policy_clause, Rat(5, 10), <<>>)

\* _extract_single_argument(comment) under the given reply: the Argument built,
\* or raised = TRUE; uuids is the number of uuid4 values it drew.
extract_single_argument(comment, reply, uuid0) ==
    IF reply.kind = "error"
    THEN [raised |-> TRUE, uuids |-> 0, argument |-> create_fallback_argument(comment, 0)]
    ELSE LET extracted_data == parse_gemini_response(reply)
         IN  IF extracted_data.outcome = "raise"
             THEN [raised |-> TRUE, uuids |-> 0,
                   argument |-> create_fallback_argument(comment, 0)]
             ELSE IF extracted_data.confidence.tag = "invalid"
             THEN \* pydantic rejects the value after uuid4() was evaluated
                  [raised |-> TRUE, uuids |-> 1,
                   argument |-> create_fallback_argument(comment, 0)]
             ELSE [raised |-> FALSE, uuids |-> 1,
                   argument |->
                       Argument(uuid0 + 1, comment.id, comment.text,
                                extracted_data.type,
                                GetOr(extracted_data.themes, <<"general">>),
                                comment.policy_clause,
                                GetOr(extracted_data.confidence, Rat(8, 10)),
                                GetOr(extracted_data.citations, <<>>))]

\* One iteration of the loop of GeminiArgumentExtractor.extract_arguments
GeminiIteration(comment, reply, uuid0) ==
    LET single == extract_single_argument(comment, reply, uuid0)
    IN  IF single.raised
        THEN [uuid |-> uuid0 + single.uuids + 1,
              argument |-> create_fallback_argument(comment, uuid0 + single.uuids + 1)]
        ELSE [uuid |-> uuid0 + single.uuids, argument |-> single.argument]

\* Faulty variant of gemini_extract_arguments: the except branch logs the error
\* and appends nothing, so a comment whose extraction raised is dropped.
RECURSIVE gemini_extract_arguments_dropping(_, _, _)
gemini_extract_arguments_dropping(comments, replies, uuid0) ==
    IF comments = <<>> THEN [arguments |-> <<>>, uuid |-> uuid0]
    ELSE LET last == Len(comments)
             before == gemini_extract_arguments_dropping(SubSeq(comments, 1, last - 1),
                                                         SubSeq(replies, 1, last - 1), uuid0)
             single == extract_single_argument(comments[last], replies[last], before.uuid)
         IN  IF single.raised
             THEN [arguments |-> before.arguments, uuid |-> before.uuid + single.uuids]
             ELSE [arguments |-> Append(before.arguments, single.argument),
                   uuid |-> before.uuid + single.uuids]

\* GeminiArgumentExtractor.extract_arguments(comments): replies[i] is the
\* service's reply for comments[i]. Returns the Arguments and the uuid count.
RECURSIVE gemini_extract_arguments(_, _, _)
gemini_extract_arguments(comments, replies, uuid0) ==
    IF comments = <<>> THEN [arguments |-> <<>>, uuid |-> uuid0]
    ELSE LET last == Len(comments)
             before == gemini_extract_arguments(SubSeq(comments, 1, last - 1),
                                                SubSeq(replies, 1, last - 1), uuid0)
             step == GeminiIteration(comments[last], replies[last], before.uuid)
         IN  [arguments |-> Append(before.arguments, step.argument),
              uuid |-> step.uuid]

----------------------------------------------------------------------------
(* citation/oracle.py *)

Citation(id, title, summary) == [id |-> id, title |-> title, summary |-> summary]

SAMPLE_CITATIONS ==
    << Citation("cit_001", "Puttaswamy Judgment on Privacy Rights",
                "Landmark judgment establishing privacy as a fundamental right under the Indian Constitution."),
       Citation("cit_002", "General Data Protection Regulation (GDPR)",
                "Regulation on data protection and privacy in the European Union."),
       Citation("cit_003", "Economic Impact of Data Privacy Laws",
                "Study on the economic effects of implementing strict data privacy regulations.") >>

\* set((citation.title + " " + citation.summary).lower().split())
CitationTokens(citation) ==
    Range(str_split(str_lower(citation.title \o " " \o citation.summary)))

\* CitationTokens of the sample citations, evaluated once
CitationTokensOfSamples ==
    [i \in 1..Len(SAMPLE_CITATIONS) |-> CitationTokens(SAMPLE_CITATIONS[i])]

CitationThreshold == 2

\* Faulty variant of RelevantCitations: a citation sharing exactly
\* CitationThreshold tokens is returned as well (len(keywords) >= 2).
RelevantCitations_inclusive(text) ==
    LET argument_tokens == Range(str_split(str_lower(text)))
        keep == [i \in 1..Len(SAMPLE_CITATIONS) |->
                    Cardinality(argument_tokens \cap CitationTokensOfSamples[i])
                        >= CitationThreshold]
    IN  FilterBy(SAMPLE_CITATIONS, keep)

\* The citations find_citations returns for an argument with this text
RelevantCitations(text) ==
    LET argument_tokens == Range(str_split(str_lower(text)))
        keep == [i \in 1..Len(SAMPLE_CITATIONS) |->
                    Cardinality(argument_tokens \cap CitationTokensOfSamples[i])
                        > CitationThreshold]
    IN  FilterBy(SAMPLE_CITATIONS, keep)

\* The texts Arguments of the specifications carry
ArgumentTexts ==
    CommentTexts \cup {preprocess_text(t) : t \in CommentTexts} \cup FusionTexts
        \cup {EchoText, OtherText} \cup {c.text : c \in AmendContents}
        \cup CiteTexts

\* RelevantCitations of those texts, evaluated once
RelevantCitationsOfPool == [t \in ArgumentTexts |-> RelevantCitations(t)]

find_citations(argument) ==
    IF argument.text \in ArgumentTexts
    THEN RelevantCitationsOfPool[argument.text]
    ELSE RelevantCitations(argument.text)

validate_citation(citation_id) ==
    \E i \in 1..Len(SAMPLE_CITATIONS) : SAMPLE_CITATIONS[i].id = citation_id

----------------------------------------------------------------------------
(* Python dicts: a sequence of [key, value] entries in insertion order *)

DictKeys(d) == [i \in 1..Len(d) |-> d[i].key]

DictHas(d, k) == \E i \in 1..Len(d) : d[i].key = k

DictGet(d, k) == d[CHOOSE i \in 1..Len(d) : d[i].key = k].value

\* d[k] = v
DictSet(d, k, v) ==
    IF DictHas(d, k)
    THEN [i \in 1..Len(d) |-> IF d[i].key = k THEN [key |-> k, value |-> v] ELSE d[i]]
    ELSE Append(d, [key |-> k, value |-> v])

\* for k, v in entries: d[k] = v
RECURSIVE DictSetAll(_, _)
DictSetAll(d, entries) ==
    IF entries = <<>> THEN d
    ELSE DictSetAll(DictSet(d, Head(entries).key, Head(entries).value), Tail(entries))

\* The dict of lists built by "for x in items: d[key(x)].append(x)", where
\* item_keys[i] is key(items[i])
GroupBy(items, item_keys) ==
    LET keys == FirstSeen(item_keys)
    IN  [j \in 1..Len(keys) |->
            [key |-> keys[j],
             value |-> FilterBy(items, [i \in 1..Len(items) |-> item_keys[i] = keys[j]])]]

----------------------------------------------------------------------------
(* fusion/engine.py *)

Clauses(arguments) == [i \in 1..Len(arguments) |-> arguments[i].clause]
Texts(arguments) == [i \in 1..Len(arguments) |-> arguments[i].text]

\* Faulty variant of aggregate_arguments: the list of a clause is assigned
\* anew for every Argument (clause_arguments[argument.clause] = [argument]).
aggregate_arguments_keeping_last(arguments) ==
    LET grouped == GroupBy(arguments, Clauses(arguments))
    IN  [g \in 1..Len(grouped) |->
            [key |-> grouped[g].key,
             value |-> <<grouped[g].value[Len(grouped[g].value)]>>]]

aggregate_arguments(arguments) == GroupBy(arguments, Clauses(arguments))

\* statistics.mean(values) of a non-empty list of rationals
RECURSIVE RSum(_)
RSum(values) == IF values = <<>> THEN RZero ELSE RAdd(Head(values), RSum(Tail(values)))

Mean(values) == RMul(RSum(values), Rat(1, Len(values)))

\* Faulty variant of SourceDiversity: counts the Arguments, not their sources.
SourceDiversity_counting_arguments(arg_list) == Len(arg_list)

\* len(set(arg.comment_id for arg in arg_list))
SourceDiversity(arg_list) == Cardinality({arg_list[i].comment_id : i \in 1..Len(arg_list)})

\* Faulty variant of GroupWeight: the confidences are summed, not averaged.
GroupWeight_summing_confidences(arg_list) ==
    LET total == RSum([i \in 1..Len(arg_list) |-> arg_list[i].confidence])
        source_diversity == SourceDiversity(arg_list)
    IN  RMul(total, RAdd(ROne, RMul(RInt(source_diversity), Rat(1, 10))))

GroupWeight(arg_list) ==
    LET avg_confidence == Mean([i \in 1..Len(arg_list) |-> arg_list[i].confidence])
        source_diversity == SourceDiversity(arg_list)
    IN  RMul(avg_confidence, RAdd(ROne, RMul(RInt(source_diversity), Rat(1, 10))))

\* Faulty variant of calculate_argument_weights: the mean confidence of the
\* whole list is taken first, which raises StatisticsError for an empty list.
calculate_argument_weights_overall_mean(arguments) ==
    IF arguments = <<>>
    THEN <<[key |-> "StatisticsError", value |-> RZero]>>
    ELSE LET argument_texts == GroupBy(arguments, Texts(arguments))
             Entries(group) ==
                 [i \in 1..Len(group.value) |->
                     [key |-> group.value[i].id, value |-> GroupWeight(group.value)]]
         IN  DictSetAll(<<>>, FlattenSeq([g \in 1..Len(argument_texts) |->
                                             Entries(argument_texts[g])]))

calculate_argument_weights(arguments) ==
    LET argument_texts == GroupBy(arguments, Texts(arguments))
        Entries(group) ==
            [i \in 1..Len(group.value) |->
                [key |-> group.value[i].id, value |-> GroupWeight(group.value)]]
    IN  DictSetAll(<<>>, FlattenSeq([g \in 1..Len(argument_texts) |->
                                        Entries(argument_texts[g])]))

EchoThreshold == 10

\* Faulty variant of detect_echo_chambers: flags a text at the threshold already
\* (len(sources) >= 10).
detect_echo_chambers_inclusive(arguments) ==
    LET texts == FirstSeen(Texts(arguments))
        Sources(arg_text) ==
            {arguments[i].comment_id : i \in {j \in 1..Len(arguments) :
                                                 arguments[j].text = arg_text}}
        Flagged(arg_text) ==
            IF Cardinality(Sources(arg_text)) >= EchoThreshold
            THEN LET Same(arg) == arg.text = arg_text
                     hits == SelectSeq(arguments, Same)
                 IN  [i \in 1..Len(hits) |-> hits[i].id]
            ELSE <<>>
    IN  FlattenSeq([t \in 1..Len(texts) |-> Flagged(texts[t])])

detect_echo_chambers(arguments) ==
    LET texts == FirstSeen(Texts(arguments))
        Sources(arg_text) ==
            {arguments[i].comment_id : i \in {j \in 1..Len(arguments) :
                                                 arguments[j].text = arg_text}}
        Flagged(arg_text) ==
            IF Cardinality(Sources(arg_text)) > EchoThreshold
            THEN LET Same(arg) == arg.text = arg_text
                     hits == SelectSeq(arguments, Same)
                 IN  [i \in 1..Len(hits) |-> hits[i].id]
            ELSE <<>>
    IN  FlattenSeq([t \in 1..Len(texts) |-> Flagged(texts[t])])

IsValidated(arg_list) == Len(arg_list) > 1

cross_validate_arguments(arguments) ==
    LET argument_texts == GroupBy(arguments, Texts(arguments))
        Entries(group) ==
            [i \in 1..Len(group.value) |->
                [key |-> group.value[i].id, value |-> IsValidated(group.value)]]
    IN  DictSetAll(<<>>, FlattenSeq([g \in 1..Len(argument_texts) |->
                                        Entries(argument_texts[g])]))

\* One run of the engine: the four operations applied to the same list
FusionRun(arguments) ==
    [clause_arguments |-> aggregate_arguments(arguments),
     weights |-> calculate_argument_weights(arguments),
     echo_chambers |-> detect_echo_chambers(arguments),
     validation |-> cross_validate_arguments(arguments)]

\* Faulty variant of ArgumentsAfterFusion: calculate_argument_weights also
\* stores each weight in its Argument (arg.confidence = weight).
ArgumentsAfterFusion_storing_weights(arguments) ==
    [k \in 1..Len(arguments) |->
        [arguments[k] EXCEPT
            !.confidence = DictGet(calculate_argument_weights(arguments), arguments[k].id)]]

\* The caller's list after the four operations ran on it: they fill dicts and
\* lists of their own and assign to no element of the list and to no field of
\* an Argument.
ArgumentsAfterFusion(arguments) == arguments

----------------------------------------------------------------------------
(* amendment/generator.py *)

IsSupport(arg) == arg.type = SUPPORT
IsObjection(arg) == arg.type = OBJECTION

\* Faulty variant of ThemeCount: the themes of every Argument are counted,
\* whatever its type.
ThemeCount_all_arguments(arguments) ==
    LET mentions == FlattenSeq([i \in 1..Len(arguments) |-> arguments[i].themes])
        themes == FirstSeen(mentions)
    IN  [t \in 1..Len(themes) |->
            [key |-> themes[t],
             value |-> Cardinality({m \in 1..Len(mentions) : mentions[m] = themes[t]})]]

\* theme_count after the loop over the OBJECTION arguments, as dict entries
ThemeCount(arguments) ==
    LET objections == SelectSeq(arguments, IsObjection)
        mentions == FlattenSeq([i \in 1..Len(objections) |-> objections[i].themes])
        themes == FirstSeen(mentions)
    IN  [t \in 1..Len(themes) |->
            [key |-> themes[t],
             value |-> Cardinality({m \in 1..Len(mentions) : mentions[m] = themes[t]})]]

\* sorted(items, key=value, reverse=True): stable, descending
RECURSIVE SortedByValueDesc(_)
SortedByValueDesc(items) ==
    IF items = <<>> THEN <<>>
    ELSE LET best == CHOOSE i \in 1..Len(items) :
                        /\ \A j \in 1..Len(items) : items[j].value <= items[i].value
                        /\ \A j \in 1..(i - 1) : items[j].value < items[i].value
             others == [j \in 1..(Len(items) - 1) |->
                           IF j < best THEN items[j] ELSE items[j + 1]]
         IN  <<items[best]>> \o SortedByValueDesc(others)

\* s[:n]
Take(s, n) == SubSeq(s, 1, Min2(n, Len(s)))

TopCount == 3

\* unique_citations: the first occurrence of every citation id, in order
RECURSIVE UniqueById(_)
UniqueById(citations) ==
    IF citations = <<>> THEN <<>>
    ELSE LET rest == UniqueById(SubSeq(citations, 1, Len(citations) - 1))
             last == citations[Len(citations)]
         IN  IF \E i \in 1..Len(rest) : rest[i].id = last.id
             THEN rest ELSE Append(rest, last)

Suggestion(id, clause, type, summary, details, suggested_change, citations, confidence) ==
    [id |-> id, clause |-> clause, type |-> type, summary |-> summary,
     details |-> details, suggested_change |-> suggested_change,
     citations |-> citations, confidence |-> confidence]

\* Faulty variant of generate_objection_response: citations are looked up
\* for every Argument of the clause, not only for the OBJECTION ones.
generate_objection_response_citing_all(clause, arguments, id) ==
    LET top_themes == Take(SortedByValueDesc(ThemeCount(arguments)), TopCount)
        names == str_join(DictKeys(top_themes))
        citations == FlattenSeq([i \in 1..Len(arguments) |->
                                    find_citations(arguments[i])])
        unique_citations == UniqueById(citations)
    IN  Suggestion(id, clause, "objection_response",
            "Address concerns regarding " \o names,
            "This clause has received significant objection, primarily concerning "
                \o names \o ". Consider revising to address these concerns.",
            "Revise clause " \o clause \o " to better address " \o names \o " concerns",
            Take(unique_citations, TopCount), Rat(9, 10))

generate_objection_response(clause, arguments, id) ==
    LET top_themes == Take(SortedByValueDesc(ThemeCount(arguments)), TopCount)
        names == str_join(DictKeys(top_themes))
        objections == SelectSeq(arguments, IsObjection)
        citations == FlattenSeq([i \in 1..Len(objections) |->
                                    find_citations(objections[i])])
        unique_citations == UniqueById(citations)
    IN  Suggestion(id, clause, "objection_response",
            "Address concerns regarding " \o names,
            "This clause has received significant objection, primarily concerning "
                \o names \o ". Consider revising to address these concerns.",
            "Revise clause " \o clause \o " to better address " \o names \o " concerns",
            Take(unique_citations, TopCount), Rat(9, 10))

generate_support_acknowledgment(clause, arguments, id) ==
    Suggestion(id, clause, "support_acknowledgment", "Positive reception",
        "This clause has received strong support from commenters.",
        "Retain this clause as currently worded", <<>>, Rat(8, 10))

generate_balanced_review(clause, arguments, id) ==
    Suggestion(id, clause, "balanced_review",
        "Mixed feedback requires detailed review",
        "This clause has received both support and objection. A detailed review is recommended.",
        "Conduct detailed review of clause " \o clause \o " considering all feedback",
        <<>>, Rat(7, 10))

\* Faulty variant of SuggestionFor: every Argument that is not SUPPORT counts
\* as an objection, NEUTRAL included.
SuggestionFor_counting_neutral(clause, args, id) ==
    LET support_count == Len(SelectSeq(args, IsSupport))
        objection_count == Len(args) - support_count
    IN  IF objection_count > support_count
        THEN generate_objection_response(clause, args, id)
        ELSE IF support_count > objection_count
        THEN generate_support_acknowledgment(clause, args, id)
        ELSE generate_balanced_review(clause, args, id)

\* Faulty variant of SuggestionFor: a tie is answered as an objection
\* (objection_count >= support_count).
SuggestionFor_tie_to_objection(clause, args, id) ==
    LET support_count == Len(SelectSeq(args, IsSupport))
        objection_count == Len(SelectSeq(args, IsObjection))
    IN  IF objection_count >= support_count
        THEN generate_objection_response(clause, args, id)
        ELSE generate_support_acknowledgment(clause, args, id)

SuggestionFor(clause, args, id) ==
    LET support_count == Len(SelectSeq(args, IsSupport))
        objection_count == Len(SelectSeq(args, IsObjection))
    IN  IF objection_count > support_count
        THEN generate_objection_response(clause, args, id)
        ELSE IF support_count > objection_count
        THEN generate_support_acknowledgment(clause, args, id)
        ELSE generate_balanced_review(clause, args, id)

\* Faulty variant of suggest_amendments: no grouping, one suggestion per Argument.
suggest_amendments_per_argument(arguments, uuid0) ==
    [i \in 1..Len(arguments) |->
        SuggestionFor(arguments[i].clause, <<arguments[i]>>, uuid0 + i)]

\* Faulty variant of suggest_amendments: every generator is handed the whole
\* list instead of the Arguments of its clause.
suggest_amendments_passing_whole_list(arguments, uuid0) ==
    LET clause_arguments == GroupBy(arguments, Clauses(arguments))
    IN  [i \in 1..Len(clause_arguments) |->
            SuggestionFor(clause_arguments[i].key, arguments, uuid0 + i)]

\* suggest_amendments(arguments); uuid0 is the number of uuids drawn before
suggest_amendments(arguments, uuid0) ==
    LET clause_arguments == GroupBy(arguments, Clauses(arguments))
    IN  [i \in 1..Len(clause_arguments) |->
            SuggestionFor(clause_arguments[i].key, clause_arguments[i].value, uuid0 + i)]

\* The Arguments find_citations is called with while suggest_amendments runs,
\* in call order: the OBJECTION Arguments of the clauses answered by
\* generate_objection_response; the other two generators call nothing.
OracleCalls(arguments) ==
    LET clause_arguments == GroupBy(arguments, Clauses(arguments))
        Calls(args) ==
            IF Len(SelectSeq(args, IsObjection)) > Len(SelectSeq(args, IsSupport))
            THEN SelectSeq(args, IsObjection)
            ELSE <<>>
    IN  FlattenSeq([i \in 1..Len(clause_arguments) |-> Calls(clause_arguments[i].value)])

----------------------------------------------------------------------------
(* The in-memory store of main.py at start-up *)

NoKey == "<no key>"
NoResponse == [endpoint |-> "none", status |-> 0, detail |-> "", body |-> <<>>]
NoResult == [op |-> "none", out |-> <<>>]

StoreInit ==
    /\ stored_comments = <<>>
    /\ stored_arguments = <<>>
    /\ stored_policies = <<>>
    /\ stored_citations = <<>>
    /\ stored_gemini_key = NoKey
    /\ uuid_counter = 0
    /\ response = NoResponse

HarnessIdle ==
    /\ h_comments = <<>>
    /\ h_replies = <<>>
    /\ h_arguments = <<>>
    /\ h_result = NoResult

----------------------------------------------------------------------------
(* Extractors applied to bounded lists of comments (SpecExtract) *)

MaxComments == 2

\* the comment texts the extractor harness draws from
ExtractTexts ==
    {"I support this good benefit",
     "I am against this, serious problem",
     "No opinion",
     "Sup*port for  personal  data"}

ReplyPool ==
    {Reply("error", MissingKey, Field("missing", <<>>), Field("missing", RZero),
           Field("missing", <<>>)),
     Reply("malformed", MissingKey, Field("missing", <<>>), Field("missing", RZero),
           Field("missing", <<>>)),
     Reply("nondict", MissingKey, Field("missing", <<>>), Field("missing", RZero),
           Field("missing", <<>>)),
     Reply("json", OBJECTION, Field("list", <<"privacy">>), Field("number", Rat(19, 20)),
           Field("list", <<"Some v. Case">>)),
     Reply("json", SUPPORT, Field("scalar", <<"privacy">>), Field("number", Rat(3, 2)),
           Field("missing", <<>>)),
     Reply("json", MissingKey, Field("missing", <<>>), Field("missing", RZero),
           Field("missing", <<>>)),
     Reply("json", "Objection", Field("list", <<>>), Field("invalid", RZero),
           Field("scalar", <<"none">>))}

AddComment ==
    /\ h_result = NoResult
    /\ Len(h_comments) < MaxComments
    /\ \E text \in ExtractTexts, clause \in ClausePool, reply \in ReplyPool :
          /\ h_comments' = Append(h_comments, Comment(Len(h_comments) + 1, text, clause))
          /\ h_replies' = Append(h_replies, reply)
    /\ UNCHANGED <<h_arguments, h_result>>
    /\ UNCHANGED api_vars

RunHeuristicExtractor ==
    /\ h_result = NoResult
    /\ h_result' = [op |-> "extract_arguments", out |-> extract_arguments(h_comments, 0)]
    /\ UNCHANGED <<h_comments, h_replies, h_arguments>>
    /\ UNCHANGED api_vars

RunGeminiExtractor ==
    /\ h_result = NoResult
    /\ h_result' = [op |-> "gemini_extract_arguments",
                    out |-> gemini_extract_arguments(h_comments, h_replies, 0).arguments]
    /\ UNCHANGED <<h_comments, h_replies, h_arguments>>
    /\ UNCHANGED api_vars

InitExtract == StoreInit /\ env_gemini_key = NoKey /\ HarnessIdle
NextExtract == AddComment \/ RunHeuristicExtractor \/ RunGeminiExtractor
SpecExtract == InitExtract /\ [][NextExtract]_vars

----------------------------------------------------------------------------
(* The heuristic extractor applied to texts that exercise normalization,    *)
(* theme matching and the confidence terms (SpecText)                       *)

AddTextComment ==
    /\ h_result = NoResult
    /\ Len(h_comments) < MaxComments
    /\ \E text \in TextPool, clause \in ClausePool :
          h_comments' = Append(h_comments, Comment(Len(h_comments) + 1, text, clause))
    /\ UNCHANGED <<h_replies, h_arguments, h_result>>
    /\ UNCHANGED api_vars

InitText == StoreInit /\ env_gemini_key = NoKey /\ HarnessIdle
NextText == AddTextComment \/ RunHeuristicExtractor
SpecText == InitText /\ [][NextText]_vars

----------------------------------------------------------------------------
(* Fusion engine applied to bounded lists of Arguments (SpecFusion) *)

MaxArguments == 3

FusionConfidences == {Rat(3, 10), ROne}
FusionCommentIds == {"c1", "c2"}

AddFusionArgument ==
    /\ h_result = NoResult
    /\ Len(h_arguments) < MaxArguments
    /\ \E comment_id \in FusionCommentIds, text \in FusionTexts,
          clause \in ClausePool, confidence \in FusionConfidences :
          h_arguments' = Append(h_arguments,
              Argument(Len(h_arguments) + 1, comment_id, text, NEUTRAL,
                       <<"general">>, clause, confidence, <<>>))
    /\ UNCHANGED <<h_comments, h_replies, h_result>>
    /\ UNCHANGED api_vars

RunAggregate ==
    /\ h_result = NoResult
    /\ h_result' = [op |-> "aggregate_arguments", out |-> aggregate_arguments(h_arguments)]
    /\ UNCHANGED <<h_comments, h_replies, h_arguments>>
    /\ UNCHANGED api_vars

RunWeights ==
    /\ h_result = NoResult
    /\ h_result' = [op |-> "calculate_argument_weights",
                    out |-> calculate_argument_weights(h_arguments)]
    /\ UNCHANGED <<h_comments, h_replies, h_arguments>>
    /\ UNCHANGED api_vars

RunEchoChambers ==
    /\ h_result = NoResult
    /\ h_result' = [op |-> "detect_echo_chambers", out |-> detect_echo_chambers(h_arguments)]
    /\ UNCHANGED <<h_comments, h_replies, h_arguments>>
    /\ UNCHANGED api_vars

RunCrossValidate ==
    /\ h_result = NoResult
    /\ h_result' = [op |-> "cross_validate_arguments",
                    out |-> cross_validate_arguments(h_arguments)]
    /\ UNCHANGED <<h_comments, h_replies, h_arguments>>
    /\ UNCHANGED api_vars

InitFusion == StoreInit /\ env_gemini_key = NoKey /\ HarnessIdle
NextFusion ==
    AddFusionArgument \/ RunAggregate \/ RunWeights \/ RunEchoChambers \/ RunCrossValidate
SpecFusion == InitFusion /\ [][NextFusion]_vars

----------------------------------------------------------------------------
(* The fusion engine run repeatedly on one list of Arguments (SpecFusionRuns) *)

MaxRuns == 2

\* All four operations applied to the list; the results of successive runs
\* are kept side by side.
RunFusionEngine ==
    /\ h_result.op \in {"none", "fusion_engine"}
    /\ Len(h_result.out) < MaxRuns
    /\ h_result' = [op |-> "fusion_engine",
                    out |-> Append(h_result.out, FusionRun(h_arguments))]
    /\ h_arguments' = ArgumentsAfterFusion(h_arguments)
    /\ UNCHANGED <<h_comments, h_replies>>
    /\ UNCHANGED api_vars

InitFusionRuns == StoreInit /\ env_gemini_key = NoKey /\ HarnessIdle
NextFusionRuns == AddFusionArgument \/ RunFusionEngine
SpecFusionRuns == InitFusionRuns /\ [][NextFusionRuns]_vars

----------------------------------------------------------------------------
(* Echo-chamber detection on lists long enough to cross the threshold       *)
(* (SpecEcho): one repeated text, at most one argument with another text    *)
(* and at most one argument repeating an earlier comment id.                *)

MaxEchoArguments == 12

CommentIdsOf(arguments) == {arguments[i].comment_id : i \in 1..Len(arguments)}

AddEchoArgument ==
    /\ h_result = NoResult
    /\ Len(h_arguments) < MaxEchoArguments
    /\ LET used == CommentIdsOf(h_arguments)
           fresh == Cardinality(used) + 1
           distinct_so_far == Cardinality(used) = Len(h_arguments)
           other_so_far == \E i \in 1..Len(h_arguments) : h_arguments[i].text = OtherText
       IN  \E comment_id \in (IF distinct_so_far THEN used ELSE {}) \cup {fresh},
              text \in (IF other_so_far THEN {} ELSE {OtherText}) \cup {EchoText} :
              h_arguments' = Append(h_arguments,
                  Argument(Len(h_arguments) + 1, comment_id, text, OBJECTION,
                           <<"general">>, "Section 2", Rat(1, 2), <<>>))
    /\ UNCHANGED <<h_comments, h_replies, h_result>>
    /\ UNCHANGED api_vars

InitEcho == StoreInit /\ env_gemini_key = NoKey /\ HarnessIdle
NextEcho == AddEchoArgument \/ RunEchoChambers
SpecEcho == InitEcho /\ [][NextEcho]_vars

----------------------------------------------------------------------------
(* Amendment generator applied to bounded lists of Arguments (SpecAmend) *)

AddAmendArgument ==
    /\ h_result = NoResult
    /\ Len(h_arguments) < MaxArguments
    /\ \E content \in AmendContents, type \in ArgumentType, clause \in ClausePool :
          h_arguments' = Append(h_arguments,
              Argument(Len(h_arguments) + 1, Len(h_arguments) + 1, content.text, type,
                       content.themes, clause, Rat(1, 2), <<>>))
    /\ UNCHANGED <<h_comments, h_replies, h_result>>
    /\ UNCHANGED api_vars

RunSuggestAmendments ==
    /\ h_result = NoResult
    /\ h_result' = [op |-> "suggest_amendments", out |-> suggest_amendments(h_arguments, 0)]
    /\ h_replies' = OracleCalls(h_arguments)
    /\ UNCHANGED <<h_comments, h_arguments>>
    /\ UNCHANGED api_vars

InitAmend == StoreInit /\ env_gemini_key = NoKey /\ HarnessIdle
NextAmend == AddAmendArgument \/ RunSuggestAmendments
SpecAmend == InitAmend /\ [][NextAmend]_vars

----------------------------------------------------------------------------
(* Citation oracle applied to bounded lists of Arguments (SpecCite) *)

AddCiteArgument ==
    /\ h_result = NoResult
    /\ Len(h_arguments) < MaxArguments
    /\ \E text \in CiteTexts :
          h_arguments' = Append(h_arguments,
              Argument(Len(h_arguments) + 1, Len(h_arguments) + 1, text, OBJECTION,
                       <<"general">>, "Section 2", Rat(1, 2), <<>>))
    /\ UNCHANGED <<h_comments, h_replies, h_result>>
    /\ UNCHANGED api_vars

\* find_citations applied to every Argument of the list in turn
RunFindCitations ==
    /\ h_result = NoResult
    /\ h_result' = [op |-> "find_citations",
                    out |-> [k \in 1..Len(h_arguments) |-> find_citations(h_arguments[k])]]
    /\ UNCHANGED <<h_comments, h_replies, h_arguments>>
    /\ UNCHANGED api_vars

InitCite == StoreInit /\ env_gemini_key = NoKey /\ HarnessIdle
NextCite == AddCiteArgument \/ RunFindCitations
SpecCite == InitCite /\ [][NextCite]_vars

----------------------------------------------------------------------------
(* Analysis in heuristic mode applied to bounded lists of comments          *)
(* (SpecPipeline): extract_arguments, the citation ids of every Argument,   *)
(* then suggest_amendments, as analyze_comments chains them without a key.  *)

AddPipelineComment ==
    /\ h_result = NoResult
    /\ Len(h_comments) < MaxComments
    /\ \E text \in PipelineTexts, clause \in ClausePool :
          h_comments' = Append(h_comments, Comment(Len(h_comments) + 1, text, clause))
    /\ UNCHANGED <<h_replies, h_arguments, h_result>>
    /\ UNCHANGED api_vars

RunHeuristicAnalysis ==
    /\ h_result = NoResult
    /\ \E extracted \in {extract_arguments(h_comments, 0)} :
       \E arguments \in {[k \in 1..Len(extracted) |->
                             [extracted[k] EXCEPT
                                 !.citations = [c \in 1..Len(find_citations(extracted[k])) |->
                                                   find_citations(extracted[k])[c].id]]]} :
          /\ h_arguments' = arguments
          /\ h_result' = [op |-> "heuristic_analysis",
                          out |-> suggest_amendments(arguments, Len(arguments))]
    /\ UNCHANGED <<h_comments, h_replies>>
    /\ UNCHANGED api_vars

InitPipeline == StoreInit /\ env_gemini_key = NoKey /\ HarnessIdle
NextPipeline == AddPipelineComment \/ RunHeuristicAnalysis
SpecPipeline == InitPipeline /\ [][NextPipeline]_vars

----------------------------------------------------------------------------
(* compute/manager.py *)

(* A comment list too long to spell out is held as a sequence of batches:   *)
(* Batch(first_id, count, ...) stands for count consecutive Comments with   *)
(* ids first_id .. first_id + count - 1 and the same text and clause.       *)
Batch(first_id, count, text, policy_clause) ==
    [first_id |-> first_id, count |-> count, text |-> text,
     policy_clause |-> policy_clause]

\* len(comments)
BatchedLen(comments) == SeqSum([b \in 1..Len(comments) |-> comments[b].count])

Requirements(num_comments, compute_type, memory_required, processing_time) ==
    [num_comments |-> num_comments, compute_type |-> compute_type,
     memory_required |-> memory_required, processing_time |-> processing_time,
     recommended_action |-> "Process " \o compute_type]

\* Faulty variant of assess_requirements: the band limits belong to the lower
\* band (num_comments <= 1000, <= 10000, <= 100000).
assess_requirements_inclusive_bands(comments) ==
    LET num_comments == BatchedLen(comments)
    IN  IF num_comments <= 1000
        THEN Requirements(num_comments, "local", "512MB", "1-2 minutes")
        ELSE IF num_comments <= 10000
        THEN Requirements(num_comments, "local", "1GB", "5-10 minutes")
        ELSE IF num_comments <= 100000
        THEN Requirements(num_comments, "hybrid", "2GB", "30-60 minutes")
        ELSE Requirements(num_comments, "cloud", "4GB+", "2-4 hours")

assess_requirements(comments) ==
    LET num_comments == BatchedLen(comments)
    IN  IF num_comments < 1000
        THEN Requirements(num_comments, "local", "512MB", "1-2 minutes")
        ELSE IF num_comments < 10000
        THEN Requirements(num_comments, "local", "1GB", "5-10 minutes")
        ELSE IF num_comments < 100000
        THEN Requirements(num_comments, "hybrid", "2GB", "30-60 minutes")
        ELSE Requirements(num_comments, "cloud", "4GB+", "2-4 hours")

----------------------------------------------------------------------------
(* assess_requirements applied to comment lists of all four sizes (SpecAssess) *)

MaxBatches == 2

BatchSizes == {1, 999, 1000, 9000, 9999, 10000, 90000, 99999, 100000}

AddBatch ==
    /\ h_result = NoResult
    /\ Len(h_comments) < MaxBatches
    /\ \E count \in BatchSizes :
          h_comments' = Append(h_comments,
              Batch(BatchedLen(h_comments) + 1, count, "No opinion", "Section 2"))
    /\ UNCHANGED <<h_replies, h_arguments, h_result>>
    /\ UNCHANGED api_vars

\* assess_requirements reads len(comments) and nothing else
RunAssessRequirements ==
    /\ h_result = NoResult
    /\ h_result' = [op |-> "assess_requirements", out |-> <<assess_requirements(h_comments)>>]
    /\ UNCHANGED <<h_comments, h_replies, h_arguments>>
    /\ UNCHANGED api_vars

InitAssess == StoreInit /\ env_gemini_key = NoKey /\ HarnessIdle
NextAssess == AddBatch \/ RunAssessRequirements
SpecAssess == InitAssess /\ [][NextAssess]_vars

----------------------------------------------------------------------------
(* ingestion/parser.py *)

\* str(i) for a natural number i
RECURSIVE IntStr(_)
IntStr(i) ==
    IF i < 10 THEN SubSeq("0123456789", i + 1, i + 1)
    ELSE IntStr(i \div 10) \o SubSeq("0123456789", (i % 10) + 1, (i % 10) + 1)

\* f"{i:03d}"
Pad3(i) ==
    IF i < 10 THEN "00" \o IntStr(i) ELSE IF i < 100 THEN "0" \o IntStr(i) ELSE IntStr(i)

PolicyClause(id, text, section) ==
    [id |-> id, text |-> text, section |-> section,
     arguments_for |-> <<>>, arguments_against |-> <<>>]

PolicyDocument(id, title, content, clauses) ==
    [id |-> id, title |-> title, content |-> content, clauses |-> clauses]

\* line.startswith('#')
StartsWithHash(line) == Len(line) > 0 /\ Char(line, 1) = "#"

\* parse_policy_document: lines is content.split('\n'), id the uuid4 drawn.
\* enumerate() counts from 0, so lines[k] has index k - 1.
parse_policy_document(lines, id) ==
    LET keep == [k \in 1..Len(lines) |->
                    str_strip(lines[k]) # "" /\ ~StartsWithHash(lines[k])]
        all == [k \in 1..Len(lines) |->
                    PolicyClause("clause_" \o Pad3(k - 1), str_strip(lines[k]),
                                 "Section " \o IntStr(k))]
    IN  PolicyDocument(id, "Policy Document", lines, FilterBy(all, keep))

\* parse_csv_comments over the rows of the data frame; row k draws uuid0 + k
parse_csv_comments(rows, uuid0) ==
    [k \in 1..Len(rows) |->
        Comment(uuid0 + k, rows[k].text, GetOr(rows[k].policy_clause, "unknown"))]

\* Number of items among the first k that carry no 'id' key
MissingIds(items, k) == Cardinality({j \in 1..k : items[j].id.tag = "missing"})

\* parse_json_comments over the items of the JSON list: an item keeps its own
\* 'id' when it has one and draws a uuid4 otherwise
parse_json_comments(items, uuid0) ==
    [k \in 1..Len(items) |->
        Comment(GetOr(items[k].id, uuid0 + MissingIds(items, k)), items[k].text,
                GetOr(items[k].policy_clause, "unknown"))]

----------------------------------------------------------------------------
(* plugins: the registry of ingestors and what each can handle *)

PluginNames == {"youtube_ingestor", "indian_legal_policy"}

\* IngestorModule.can_handle(source_type) of the registered plugins
can_handle(plugin_name, source_type) ==
    IF plugin_name = "youtube_ingestor"
    THEN str_lower(source_type)
            \in {"youtube", "yt", "youtube_video", "political_debate", "default"}
    ELSE str_lower(source_type)
            \in {"indian_legal", "indian_policy", "legal_policy", "default"}

\* ModuleRegistry.get_ingestor(name) is not None
HasIngestor(plugin_name) == plugin_name \in PluginNames

\* The source type ingest_with_plugin settles on
ResolveSourceType(plugin_name, source, source_type) ==
    IF source_type # "auto" THEN source_type
    ELSE IF str_in("youtube.com", source) \/ str_in("youtu.be", source) THEN "youtube"
    ELSE IF str_in("instagram.com", source) THEN "instagram"
    ELSE IF str_in("linkedin.com", source) THEN "linkedin"
    ELSE IF str_in("default", str_lower(source)) THEN "indian_legal"
    ELSE plugin_name

\* Comments built from the items a plugin returned; item k draws uuid0 + k
PluginComments(data, uuid0) ==
    [k \in 1..Len(data) |->
        Comment(uuid0 + k, GetOr(data[k].text, ""), GetOr(data[k].category, "general"))]

----------------------------------------------------------------------------
(* main.py: the API over the in-memory store (Spec) *)

MaxStoredComments == 2
MaxStoredPolicies == 1
MaxUuid == 5

\* Uploaded files: valid = FALSE is a file the parser raises on (a missing
\* 'text' column or key, bytes that do not decode), before anything is stored.
CsvFiles ==
    {[valid |-> TRUE,
      rows |-> <<[text |-> "I support this good benefit",
                  policy_clause |-> Field("present", "Section 2")]>>],
     [valid |-> FALSE, rows |-> <<>>]}

\* ids found inside uploaded JSON files
UserIds == {900}

JsonItems ==
    {[id |-> i, text |-> "Strict data privacy regulations hurt the economy!",
      policy_clause |-> c] :
        i \in {Field("present", u) : u \in UserIds} \cup {Field("missing", 0)},
        c \in {Field("present", "Section 7(a)")}}

JsonFiles ==
    {[valid |-> TRUE, rows |-> <<item>>] : item \in JsonItems}
    \cup {[valid |-> FALSE, rows |-> <<>>]}

PolicyFiles ==
    {[valid |-> TRUE,
      lines |-> <<"# Digital Privacy Act", " Providers must collect consent ", "">>],
     [valid |-> FALSE, lines |-> <<>>]}

\* What a plugin's ingest(source) hands back: a list of items, or it raises
PluginResults ==
    {[raised |-> TRUE, data |-> <<>>],
     [raised |-> FALSE,
      data |-> <<[text |-> Field("present", "Strict data privacy regulations hurt the economy!"),
                  category |-> Field("present", "Section 2")]>>],
     [raised |-> FALSE,
      data |-> <<[text |-> Field("missing", ""), category |-> Field("missing", "")]>>]}

PluginRequestNames == PluginNames \cup {"no_such_plugin"}
PluginSources == {"https://youtube.com/watch?v=1", "default"}
PluginSourceTypes == {"auto", "instagram"}

\* the requests made to POST /ingest/plugin/{plugin_name}
PluginRequests ==
    {<<"no_such_plugin", "default", "auto">>,
     <<"youtube_ingestor", "https://youtube.com/watch?v=1", "auto">>,
     <<"youtube_ingestor", "default", "auto">>,
     <<"indian_legal_policy", "default", "auto">>,
     <<"indian_legal_policy", "default", "instagram">>}
RequestKeys == {NoKey, "key-from-request"}

\* Which check of ingest_with_plugin a request stops at, if any
PluginChecks(plugin_name, source, source_type) ==
    IF ~HasIngestor(plugin_name) THEN "not found"
    ELSE IF ~can_handle(plugin_name, ResolveSourceType(plugin_name, source, source_type))
    THEN "cannot handle"
    ELSE "ok"

\* PluginChecks of the pool requests, evaluated once
PluginChecksOfPool ==
    [p \in PluginRequestNames |-> [s \in PluginSources |-> [t \in PluginSourceTypes |->
        PluginChecks(p, s, t)]]]

\* replies of the external service during an analysis
ApiReplyPool ==
    {r \in ReplyPool : r.kind = "error" \/ r.type = OBJECTION}

Respond(endpoint, status, detail, body) ==
    [endpoint |-> endpoint, status |-> status, detail |-> detail, body |-> body]

Ids(items) == [k \in 1..Len(items) |-> items[k].id]

\* Faulty variant of upload_csv_comments: a successful upload discards the
\* Arguments of the last analysis (stored_data["arguments"] = []).
upload_csv_comments_clearing_arguments ==
    /\ \E file \in CsvFiles :
          IF file.valid
          THEN LET comments == parse_csv_comments(file.rows, uuid_counter)
               IN  /\ Len(stored_comments) + Len(comments) <= MaxStoredComments
                   /\ uuid_counter + Len(comments) <= MaxUuid
                   /\ stored_comments' = stored_comments \o comments
                   /\ uuid_counter' = uuid_counter + Len(comments)
                   /\ response' = Respond("upload_csv_comments", 200, "", Ids(comments))
                   /\ stored_arguments' = <<>>
          ELSE /\ response' = Respond("upload_csv_comments", 400, "parse error", <<>>)
               /\ UNCHANGED <<stored_comments, stored_arguments, uuid_counter>>
    /\ UNCHANGED <<stored_policies, stored_citations, stored_gemini_key, env_gemini_key>>
    /\ UNCHANGED harness_vars

\* POST /upload/comments/csv
upload_csv_comments ==
    /\ \E file \in CsvFiles :
          IF file.valid
          THEN LET comments == parse_csv_comments(file.rows, uuid_counter)
               IN  /\ Len(stored_comments) + Len(comments) <= MaxStoredComments
                   /\ uuid_counter + Len(comments) <= MaxUuid
                   /\ stored_comments' = stored_comments \o comments
                   /\ uuid_counter' = uuid_counter + Len(comments)
                   /\ response' = Respond("upload_csv_comments", 200, "", Ids(comments))
          ELSE /\ response' = Respond("upload_csv_comments", 400, "parse error", <<>>)
               /\ UNCHANGED <<stored_comments, uuid_counter>>
    /\ UNCHANGED <<stored_arguments, stored_policies, stored_citations,
                   stored_gemini_key, env_gemini_key>>
    /\ UNCHANGED harness_vars

\* POST /upload/comments/json
upload_json_comments ==
    /\ \E file \in JsonFiles :
          IF file.valid
          THEN LET comments == parse_json_comments(file.rows, uuid_counter)
                   drawn == MissingIds(file.rows, Len(file.rows))
               IN  /\ Len(stored_comments) + Len(comments) <= MaxStoredComments
                   /\ uuid_counter + drawn <= MaxUuid
                   /\ stored_comments' = stored_comments \o comments
                   /\ uuid_counter' = uuid_counter + drawn
                   /\ response' = Respond("upload_json_comments", 200, "", Ids(comments))
          ELSE /\ response' = Respond("upload_json_comments", 400, "parse error", <<>>)
               /\ UNCHANGED <<stored_comments, uuid_counter>>
    /\ UNCHANGED <<stored_arguments, stored_policies, stored_citations,
                   stored_gemini_key, env_gemini_key>>
    /\ UNCHANGED harness_vars

\* POST /upload/policy
upload_policy_document ==
    /\ \E file \in PolicyFiles :
          IF file.valid
          THEN LET policy == parse_policy_document(file.lines, uuid_counter + 1)
               IN  /\ Len(stored_policies) < MaxStoredPolicies
                   /\ uuid_counter + 1 <= MaxUuid
                   /\ stored_policies' = Append(stored_policies, policy)
                   /\ uuid_counter' = uuid_counter + 1
                   /\ response' = Respond("upload_policy_document", 200, "", <<policy.id>>)
          ELSE /\ response' = Respond("upload_policy_document", 400, "parse error", <<>>)
               /\ UNCHANGED <<stored_policies, uuid_counter>>
    /\ UNCHANGED <<stored_comments, stored_arguments, stored_citations,
                   stored_gemini_key, env_gemini_key>>
    /\ UNCHANGED harness_vars

\* POST /ingest/plugin/{plugin_name}. The key is stored first; the
\* HTTPException(404) and HTTPException(400) raised inside the try block are
\* caught by its "except Exception" and leave as status 400.
ingest_with_plugin ==
    /\ \E request \in PluginRequests, gemini_key \in RequestKeys :
       \E plugin_name \in {request[1]}, source \in {request[2]},
          source_type \in {request[3]} :
          /\ stored_gemini_key' = IF gemini_key # NoKey THEN gemini_key
                                  ELSE stored_gemini_key
          /\ IF PluginChecksOfPool[plugin_name][source][source_type] = "not found"
             THEN /\ response' = Respond("ingest_with_plugin", 400, "plugin not found", <<>>)
                  /\ UNCHANGED <<stored_comments, uuid_counter>>
             ELSE IF PluginChecksOfPool[plugin_name][source][source_type] = "cannot handle"
             THEN /\ response' = Respond("ingest_with_plugin", 400,
                                         "cannot handle this source type", <<>>)
                  /\ UNCHANGED <<stored_comments, uuid_counter>>
             ELSE \E result \in PluginResults :
                     IF result.raised
                     THEN /\ response' = Respond("ingest_with_plugin", 400,
                                                 "ingest error", <<>>)
                          /\ UNCHANGED <<stored_comments, uuid_counter>>
                     ELSE LET comments == PluginComments(result.data, uuid_counter)
                          IN  /\ Len(stored_comments) + Len(comments) <= MaxStoredComments
                              /\ uuid_counter + Len(comments) <= MaxUuid
                              /\ stored_comments' = stored_comments \o comments
                              /\ uuid_counter' = uuid_counter + Len(comments)
                              /\ response' = Respond("ingest_with_plugin", 200, "",
                                                     Ids(comments))
    /\ UNCHANGED <<stored_arguments, stored_policies, stored_citations, env_gemini_key>>
    /\ UNCHANGED harness_vars

\* gemini_key or stored_data.get("gemini_key") or os.environ.get("GEMINI_API_KEY")
ApiKey(gemini_key) ==
    IF gemini_key # NoKey THEN gemini_key
    ELSE IF stored_gemini_key # NoKey THEN stored_gemini_key
    ELSE env_gemini_key

\* The handlers bind each local variable once: \E x \in {e} names the value of e.

\* The try block of analyze_comments: with a key the Gemini extractor runs;
\* without one its constructor raises ValueError and the basic extractor runs.
ExtractForAnalysis(api_key, replies) ==
    IF api_key # NoKey
    THEN gemini_extract_arguments(stored_comments, replies, uuid_counter)
    ELSE [arguments |-> extract_arguments(stored_comments, uuid_counter),
          uuid |-> uuid_counter + Len(stored_comments)]

\* {clause: len(args) for clause, args in clause_arguments.items()}
ClauseCounts(clause_arguments) ==
    [k \in 1..Len(clause_arguments) |->
        [key |-> clause_arguments[k].key, value |-> Len(clause_arguments[k].value)]]

\* Faulty variant of analyze_comments: the new Arguments are appended to the
\* stored list and the old ones stay.
analyze_comments_appending ==
    /\ \E gemini_key \in RequestKeys :
          IF stored_comments = <<>>
          THEN /\ response' = Respond("analyze_comments", 400, "No comments uploaded", <<>>)
               /\ UNCHANGED <<stored_arguments, stored_citations, uuid_counter>>
          ELSE IF stored_policies = <<>>
          THEN /\ response' = Respond("analyze_comments", 400,
                                      "No policy document uploaded", <<>>)
               /\ UNCHANGED <<stored_arguments, stored_citations, uuid_counter>>
          ELSE \E replies \in IF ApiKey(gemini_key) # NoKey
                              THEN [1..Len(stored_comments) -> ApiReplyPool]
                              ELSE {<<>>} :
                  \E extracted \in {ExtractForAnalysis(ApiKey(gemini_key), replies)} :
                  \E found \in {[k \in 1..Len(extracted.arguments) |->
                                    find_citations(extracted.arguments[k])]} :
                  \E arguments \in {[k \in 1..Len(extracted.arguments) |->
                                        [extracted.arguments[k]
                                            EXCEPT !.citations = Ids(found[k])]]} :
                  \E suggestions \in {suggest_amendments(arguments, extracted.uuid)} :
                      /\ extracted.uuid + Len(suggestions) <= MaxUuid
                      /\ stored_arguments' = stored_arguments \o arguments
                      /\ stored_citations' = stored_citations \o FlattenSeq(found)
                      /\ uuid_counter' = extracted.uuid + Len(suggestions)
                      /\ response' =
                            Respond("analyze_comments", 200, "Analysis complete",
                                    <<[num_arguments |-> Len(arguments),
                                       clause_arguments |->
                                           ClauseCounts(aggregate_arguments(arguments)),
                                       suggestions |-> suggestions]>>)
    /\ UNCHANGED <<stored_comments, stored_policies, stored_gemini_key, env_gemini_key>>
    /\ UNCHANGED harness_vars

\* Faulty variant of analyze_comments: the oracle's citation ids are added to
\* the citations an Argument already carries (those the LLM reply supplied).
analyze_comments_keeping_citations ==
    /\ \E gemini_key \in RequestKeys :
          IF stored_comments = <<>>
          THEN /\ response' = Respond("analyze_comments", 400, "No comments uploaded", <<>>)
               /\ UNCHANGED <<stored_arguments, stored_citations, uuid_counter>>
          ELSE IF stored_policies = <<>>
          THEN /\ response' = Respond("analyze_comments", 400,
                                      "No policy document uploaded", <<>>)
               /\ UNCHANGED <<stored_arguments, stored_citations, uuid_counter>>
          ELSE \E replies \in IF ApiKey(gemini_key) # NoKey
                              THEN [1..Len(stored_comments) -> ApiReplyPool]
                              ELSE {<<>>} :
                  \E extracted \in {ExtractForAnalysis(ApiKey(gemini_key), replies)} :
                  \E found \in {[k \in 1..Len(extracted.arguments) |->
                                    find_citations(extracted.arguments[k])]} :
                  \E arguments \in {[k \in 1..Len(extracted.arguments) |->
                                        [extracted.arguments[k]
                                            EXCEPT !.citations = @ \o Ids(found[k])]]} :
                  \E suggestions \in {suggest_amendments(arguments, extracted.uuid)} :
                      /\ extracted.uuid + Len(suggestions) <= MaxUuid
                      /\ stored_arguments' = arguments
                      /\ stored_citations' = stored_citations \o FlattenSeq(found)
                      /\ uuid_counter' = extracted.uuid + Len(suggestions)
                      /\ response' =
                            Respond("analyze_comments", 200, "Analysis complete",
                                    <<[num_arguments |-> Len(arguments),
                                       clause_arguments |->
                                           ClauseCounts(aggregate_arguments(arguments)),
                                       suggestions |-> suggestions]>>)
    /\ UNCHANGED <<stored_comments, stored_policies, stored_gemini_key, env_gemini_key>>
    /\ UNCHANGED harness_vars

\* POST /analyze
analyze_comments ==
    /\ \E gemini_key \in RequestKeys :
          IF stored_comments = <<>>
          THEN /\ response' = Respond("analyze_comments", 400, "No comments uploaded", <<>>)
               /\ UNCHANGED <<stored_arguments, stored_citations, uuid_counter>>
          ELSE IF stored_policies = <<>>
          THEN /\ response' = Respond("analyze_comments", 400,
                                      "No policy document uploaded", <<>>)
               /\ UNCHANGED <<stored_arguments, stored_citations, uuid_counter>>
          ELSE \E replies \in IF ApiKey(gemini_key) # NoKey
                              THEN [1..Len(stored_comments) -> ApiReplyPool]
                              ELSE {<<>>} :
                  \E extracted \in {ExtractForAnalysis(ApiKey(gemini_key), replies)} :
                  \E found \in {[k \in 1..Len(extracted.arguments) |->
                                    find_citations(extracted.arguments[k])]} :
                  \E arguments \in {[k \in 1..Len(extracted.arguments) |->
                                        [extracted.arguments[k]
                                            EXCEPT !.citations = Ids(found[k])]]} :
                  \E suggestions \in {suggest_amendments(arguments, extracted.uuid)} :
                      /\ extracted.uuid + Len(suggestions) <= MaxUuid
                      /\ stored_arguments' = arguments
                      /\ stored_citations' = stored_citations \o FlattenSeq(found)
                      /\ uuid_counter' = extracted.uuid + Len(suggestions)
                      /\ response' =
                            Respond("analyze_comments", 200, "Analysis complete",
                                    <<[num_arguments |-> Len(arguments),
                                       clause_arguments |->
                                           ClauseCounts(aggregate_arguments(arguments)),
                                       suggestions |-> suggestions]>>)
    /\ UNCHANGED <<stored_comments, stored_policies, stored_gemini_key, env_gemini_key>>
    /\ UNCHANGED harness_vars

\* GET /results/arguments
get_arguments ==
    /\ response' = Respond("get_arguments", 200, "", stored_arguments)
    /\ UNCHANGED <<stored_comments, stored_arguments, stored_policies, stored_citations,
                   stored_gemini_key, env_gemini_key, uuid_counter>>
    /\ UNCHANGED harness_vars

ClauseRequestIds == ClausePool \cup {"Section 99"}

\* theme_arguments of get_clause_analysis: theme -> the Arguments naming it
ThemeArguments(clause_arguments) ==
    LET pairs == FlattenSeq([k \in 1..Len(clause_arguments) |->
                    [t \in 1..Len(clause_arguments[k].themes) |->
                        [theme |-> clause_arguments[k].themes[t],
                         arg |-> clause_arguments[k]]]])
    IN  GroupBy([k \in 1..Len(pairs) |-> pairs[k].arg],
                [k \in 1..Len(pairs) |-> pairs[k].theme])

\* GET /results/clause/{clause_id}
get_clause_analysis ==
    /\ \E clause_id \in ClauseRequestIds :
          \E clause_arguments \in
                  {FilterBy(stored_arguments, [k \in 1..Len(stored_arguments) |->
                                                 stored_arguments[k].clause = clause_id])} :
              IF clause_arguments = <<>>
              THEN response' = Respond("get_clause_analysis", 404, "Clause not found", <<>>)
              ELSE response' =
                      Respond("get_clause_analysis", 200, "",
                              <<[clause_id |-> clause_id,
                                 total_arguments |-> Len(clause_arguments),
                                 themes |-> ThemeArguments(clause_arguments),
                                 support_count |->
                                     Len(SelectSeq(clause_arguments, IsSupport)),
                                 objection_count |->
                                     Len(SelectSeq(clause_arguments, IsObjection))]>>)
    /\ UNCHANGED <<stored_comments, stored_arguments, stored_policies, stored_citations,
                   stored_gemini_key, env_gemini_key, uuid_counter>>
    /\ UNCHANGED harness_vars

\* Faulty variant of get_amendment_suggestions: no check that an analysis has
\* run; an empty store is answered 200 with an empty list.
get_amendment_suggestions_unchecked ==
    /\ \E suggestions \in {suggest_amendments(stored_arguments, uuid_counter)} :
          /\ uuid_counter + Len(suggestions) <= MaxUuid
          /\ uuid_counter' = uuid_counter + Len(suggestions)
          /\ response' = Respond("get_amendment_suggestions", 200, "", suggestions)
    /\ UNCHANGED <<stored_comments, stored_arguments, stored_policies, stored_citations,
                   stored_gemini_key, env_gemini_key>>
    /\ UNCHANGED harness_vars

\* GET /results/suggestions
get_amendment_suggestions ==
    /\ IF stored_arguments = <<>>
       THEN /\ response' = Respond("get_amendment_suggestions", 400,
                                   "No analysis completed", <<>>)
            /\ UNCHANGED uuid_counter
       ELSE \E suggestions \in {suggest_amendments(stored_arguments, uuid_counter)} :
                /\ uuid_counter + Len(suggestions) <= MaxUuid
                /\ uuid_counter' = uuid_counter + Len(suggestions)
                /\ response' = Respond("get_amendment_suggestions", 200, "", suggestions)
    /\ UNCHANGED <<stored_comments, stored_arguments, stored_policies, stored_citations,
                   stored_gemini_key, env_gemini_key>>
    /\ UNCHANGED harness_vars

\* GEMINI_API_KEY in the server's environment: unset in the runs explored
EnvKeys == {NoKey}

Init == StoreInit /\ env_gemini_key \in EnvKeys /\ HarnessIdle

Next ==
    \/ upload_csv_comments
    \/ upload_json_comments
    \/ upload_policy_document
    \/ ingest_with_plugin
    \/ analyze_comments
    \/ get_arguments
    \/ get_clause_analysis
    \/ get_amendment_suggestions

Spec == Init /\ [][Next]_vars

----------------------------------------------------------------------------
(* Claims about the amendment generator (SpecAmend) *)

FirstIndexOfClause(arguments, clause) ==
    SetMin({k \in 1..Len(arguments) : arguments[k].clause = clause})

\* C1: suggest_amendments returns exactly one suggestion per distinct clause
\* of its input (none for an empty list), each carrying that clause, and the
\* suggestions are ordered by the first occurrence of their clause in the input.
C1_OneSuggestionPerClause ==
    h_result.op = "suggest_amendments" =>
        LET out == h_result.out
        IN  /\ \A k \in 1..Len(h_arguments) :
                  Cardinality({i \in 1..Len(out) : out[i].clause = h_arguments[k].clause}) = 1
            /\ \A i \in 1..Len(out) :
                  \E k \in 1..Len(h_arguments) : h_arguments[k].clause = out[i].clause
            /\ \A i \in 1..Len(out) : \A j \in 1..Len(out) :
                  i < j => FirstIndexOfClause(h_arguments, out[i].clause)
                             < FirstIndexOfClause(h_arguments, out[j].clause)
            /\ (h_arguments = <<>> => out = <<>>)

\* Three Arguments on clauses "Section 2", "Section 7(a)", "Section 2" gave
\* two suggestions, "Section 2" first.
C1_Witness ==
    /\ h_result.op = "suggest_amendments"
    /\ Len(h_arguments) = 3
    /\ Clauses(h_arguments) = <<"Section 2", "Section 7(a)", "Section 2">>
    /\ Len(h_result.out) = 2
    /\ h_result.out[1].clause = "Section 2"

CountOfType(arguments, clause, type) ==
    Cardinality({k \in 1..Len(arguments) :
                    arguments[k].clause = clause /\ arguments[k].type = type})

\* C2: a suggestion's type, confidence and citation presence are decided by
\* the SUPPORT and OBJECTION counts of its clause alone (NEUTRAL not counted):
\* more objections give objection_response with confidence 0.9; more supports
\* give support_acknowledgment, 0.8, no citations; a tie (0/0 included) gives
\* balanced_review, 0.7, no citations.
C2_TypeFollowsCounts ==
    h_result.op = "suggest_amendments" =>
        \A i \in 1..Len(h_result.out) :
            LET suggestion == h_result.out[i]
                supports == CountOfType(h_arguments, suggestion.clause, SUPPORT)
                objections == CountOfType(h_arguments, suggestion.clause, OBJECTION)
            IN  /\ objections > supports =>
                      /\ suggestion.type = "objection_response"
                      /\ suggestion.confidence = Rat(9, 10)
                /\ supports > objections =>
                      /\ suggestion.type = "support_acknowledgment"
                      /\ suggestion.confidence = Rat(8, 10)
                      /\ suggestion.citations = <<>>
                /\ supports = objections =>
                      /\ suggestion.type = "balanced_review"
                      /\ suggestion.confidence = Rat(7, 10)
                      /\ suggestion.citations = <<>>

\* A clause with one SUPPORT and two NEUTRAL Arguments was acknowledged.
C2_Witness ==
    /\ h_result.op = "suggest_amendments"
    /\ \E i \in 1..Len(h_result.out) :
          /\ h_result.out[i].type = "support_acknowledgment"
          /\ CountOfType(h_arguments, h_result.out[i].clause, SUPPORT) = 1
          /\ CountOfType(h_arguments, h_result.out[i].clause, NEUTRAL) = 2

----------------------------------------------------------------------------
(* Claims about the extractors (SpecExtract) *)

\* C3: in LLM mode, a comment whose external call fails or whose reply is
\* malformed JSON gets the stance and themes the keyword heuristic assigns to
\* its text.
C3_FailedReplyGetsHeuristicStance ==
    h_result.op = "gemini_extract_arguments" =>
        \A i \in 1..Len(h_comments) :
            h_replies[i].kind \in {"error", "malformed"} =>
                /\ h_result.out[i].type = HeuristicFields(h_comments[i].text).type
                /\ h_result.out[i].themes = HeuristicFields(h_comments[i].text).themes

\* C4: both extractors return exactly one Argument per Comment in input order,
\* with the comment's id and clause, whichever external calls fail.
C4_OneArgumentPerComment ==
    h_result.op \in {"extract_arguments", "gemini_extract_arguments"} =>
        /\ Len(h_result.out) = Len(h_comments)
        /\ \A i \in 1..Len(h_comments) :
              /\ h_result.out[i].comment_id = h_comments[i].id
              /\ h_result.out[i].clause = h_comments[i].policy_clause

\* The Gemini extractor ran on two comments, the call failing for the first
\* and answering a JSON object for the second.
C4_Witness ==
    /\ h_result.op = "gemini_extract_arguments"
    /\ Len(h_comments) = 2
    /\ h_replies[1].kind = "error"
    /\ h_replies[2].kind = "json"
    /\ h_comments[1].policy_clause # h_comments[2].policy_clause
    /\ Len(h_result.out) = 2

\* C5: every Argument an extractor produces, in heuristic and in LLM mode
\* (also when the reply supplies its own confidence), has confidence in [0,1].
C5_ConfidenceWithinUnitInterval ==
    h_result.op \in {"extract_arguments", "gemini_extract_arguments"} =>
        \A i \in 1..Len(h_result.out) :
            /\ RLe(RZero, h_result.out[i].confidence)
            /\ RLe(h_result.out[i].confidence, ROne)

----------------------------------------------------------------------------
(* Claims about the fusion engine (SpecFusion, SpecEcho) *)

SameText(arguments, k) == {j \in 1..Len(arguments) : arguments[j].text = arguments[k].text}

SourcesOfText(arguments, k) == {arguments[j].comment_id : j \in SameText(arguments, k)}

\* C6: cross_validate_arguments maps an argument id to true iff the same text
\* appears from more than one distinct comment_id.
C6_ValidatedIffSeveralComments ==
    h_result.op = "cross_validate_arguments" =>
        \A k \in 1..Len(h_arguments) :
            /\ DictHas(h_result.out, h_arguments[k].id)
            /\ DictGet(h_result.out, h_arguments[k].id)
                  = (Cardinality(SourcesOfText(h_arguments, k)) > 1)

\* C7: detect_echo_chambers returns an Argument's id iff the Arguments with
\* its text come from strictly more than 10 distinct comment ids, and lists
\* every flagged id exactly once.
C7_EchoChamberAboveTen ==
    h_result.op = "detect_echo_chambers" =>
        /\ \A k \in 1..Len(h_arguments) :
              (h_arguments[k].id \in Range(h_result.out))
                  <=> (Cardinality(SourcesOfText(h_arguments, k)) > 10)
        /\ Cardinality(Range(h_result.out)) = Len(h_result.out)

\* Twelve Arguments, eleven with one text from eleven distinct comments and
\* one with another text: exactly the eleven are flagged.
C7_Witness ==
    /\ h_result.op = "detect_echo_chambers"
    /\ Len(h_arguments) = 12
    /\ \E k \in 1..Len(h_arguments) : h_arguments[k].text = OtherText
    /\ Len(h_result.out) = 11

RECURSIVE ConfidenceTotal(_, _)
ConfidenceTotal(arguments, indices) ==
    IF indices = {} THEN RZero
    ELSE LET k == CHOOSE x \in indices : TRUE
         IN  RAdd(arguments[k].confidence, ConfidenceTotal(arguments, indices \ {k}))

\* C8: calculate_argument_weights gives every argument id the weight
\* mean(confidence of the Arguments with its text) x (1 + 0.1 x number of
\* distinct comment_ids among them); equal texts get equal weights, and the
\* result has an entry for exactly the input argument ids.
C8_WeightFormula ==
    h_result.op = "calculate_argument_weights" =>
        LET out == h_result.out
        IN  /\ Len(out) = Len(h_arguments)
            /\ Range(DictKeys(out)) = {h_arguments[k].id : k \in 1..Len(h_arguments)}
            /\ \A k \in 1..Len(h_arguments) :
                  RMul(DictGet(out, h_arguments[k].id),
                       RInt(10 * Cardinality(SameText(h_arguments, k))))
                    = RMul(ConfidenceTotal(h_arguments, SameText(h_arguments, k)),
                           RInt(10 + Cardinality(SourcesOfText(h_arguments, k))))
            /\ \A k \in 1..Len(h_arguments) : \A j \in SameText(h_arguments, k) :
                  DictGet(out, h_arguments[j].id) = DictGet(out, h_arguments[k].id)

\* Three Arguments with one text, two of them from the same comment and with
\* different confidences, were weighted.
C8_Witness ==
    /\ h_result.op = "calculate_argument_weights"
    /\ Len(h_arguments) = 3
    /\ Cardinality(SameText(h_arguments, 1)) = 3
    /\ Cardinality(SourcesOfText(h_arguments, 1)) = 2
    /\ h_arguments[1].comment_id = h_arguments[2].comment_id
    /\ h_arguments[1].confidence # h_arguments[2].confidence

----------------------------------------------------------------------------
(* Claims about the API (Spec) *)

\* stored_data's four lists
store == <<stored_comments, stored_arguments, stored_policies, stored_citations>>

\* Every handler writes the response, so response' names the request of a step.
ClientError(status) == status \in 400..499

\* C9: a request that fails input validation (analyze with no stored comments
\* or no stored policy, clause analysis for a clause without stored Arguments,
\* suggestions before any analysis) is answered with a 4xx status and leaves
\* the stored comments, arguments, policies and citations as they were.
C9_ValidationFailureLeavesStore ==
    [][/\ (/\ response'.endpoint = "analyze_comments"
           /\ (stored_comments = <<>> \/ stored_policies = <<>>))
          => (ClientError(response'.status) /\ store' = store)
       /\ (response'.endpoint = "get_clause_analysis")
          => /\ store' = store
             /\ \/ ClientError(response'.status)
                \/ /\ response'.status = 200
                   /\ \E k \in 1..Len(stored_arguments) :
                         stored_arguments[k].clause = response'.body[1].clause_id
             /\ stored_arguments = <<>> => ClientError(response'.status)
       /\ (response'.endpoint = "get_amendment_suggestions" /\ stored_arguments = <<>>)
          => (ClientError(response'.status) /\ store' = store)
      ]_vars

\* An analysis was refused for want of a policy while comments were stored.
C9_Witness ==
    /\ response.endpoint = "analyze_comments"
    /\ response.status = 400
    /\ response.detail = "No policy document uploaded"
    /\ stored_comments # <<>>
    /\ stored_policies = <<>>

\* C10: once created, an Argument is never deleted within a session: every
\* Argument in the stored argument list is still in it after any request.
C10_ArgumentsNeverDeleted ==
    [][\A k \in 1..Len(stored_arguments) :
          \E j \in 1..Len(stored_arguments') :
              stored_arguments'[j].id = stored_arguments[k].id]_vars

\* C10, as the code has it: uploads, ingestions, result requests and refused
\* analyses leave the stored argument list alone; a completed analysis
\* replaces the whole list by newly created Arguments, one per stored comment
\* in order, so that no earlier Argument stays but every comment that had an
\* Argument has one again.
C10_AnalysisReplacesArguments ==
    [][IF response'.endpoint = "analyze_comments" /\ response'.status = 200
       THEN /\ Len(stored_arguments') = Len(stored_comments)
            /\ \A k \in 1..Len(stored_comments) :
                  stored_arguments'[k].comment_id = stored_comments[k].id
            /\ \A k \in 1..Len(stored_arguments') : \A j \in 1..Len(stored_arguments) :
                  stored_arguments'[k].id # stored_arguments[j].id
            /\ \A j \in 1..Len(stored_arguments) :
                  \E k \in 1..Len(stored_arguments') :
                      stored_arguments'[k].comment_id = stored_arguments[j].comment_id
       ELSE stored_arguments' = stored_arguments
      ]_vars

\* A second analysis completed: one comment, one stored Argument, and more
\* stored citations than one analysis of that Argument adds.
C10_Witness ==
    /\ response.endpoint = "analyze_comments"
    /\ response.status = 200
    /\ Len(stored_comments) = 1
    /\ Len(stored_arguments) = 1
    /\ stored_arguments[1].citations # <<>>
    /\ Len(stored_citations) > Len(stored_arguments[1].citations)

----------------------------------------------------------------------------
(* Claims about the citation oracle (SpecCite) *)

\* The distinct lowercase whitespace-separated tokens of a text
TokensOf(text) == Range(str_split(str_lower(text)))

\* Number of distinct tokens the text shares with title + " " + summary of
\* the i-th citation of the table, for the texts looked up
SharedTokenCount ==
    [t \in CiteTexts |->
        [i \in 1..Len(SAMPLE_CITATIONS) |->
            Cardinality(TokensOf(t) \cap
                        TokensOf(SAMPLE_CITATIONS[i].title \o " "
                                     \o SAMPLE_CITATIONS[i].summary))]]

TableIndex(citation) ==
    CHOOSE i \in 1..Len(SAMPLE_CITATIONS) : SAMPLE_CITATIONS[i] = citation

\* C11: find_citations returns a citation of the static table iff the
\* argument text and the citation's title + " " + summary share strictly more
\* than 2 distinct lowercase whitespace-split tokens (3 shared: returned,
\* exactly 2: not returned), and the returned citations keep the table's order.
C11_CitationIffThreeSharedTokens ==
    h_result.op = "find_citations" =>
        \A k \in 1..Len(h_arguments) :
            LET found == h_result.out[k]
                shared == SharedTokenCount[h_arguments[k].text]
            IN  /\ \A i \in 1..Len(SAMPLE_CITATIONS) :
                      (SAMPLE_CITATIONS[i] \in Range(found)) <=> (shared[i] >= 3)
                /\ \A a \in 1..Len(found) : found[a] \in Range(SAMPLE_CITATIONS)
                /\ \A a \in 1..Len(found) : \A b \in 1..Len(found) :
                      a < b => TableIndex(found[a]) < TableIndex(found[b])

\* Looked up: a text sharing exactly 2 tokens with the second and third
\* citation (nothing returned), one sharing exactly 3 with the second (it
\* alone returned), and one matching the second and third (both, in order).
C11_Witness ==
    /\ h_result.op = "find_citations"
    /\ Len(h_arguments) = 3
    /\ h_arguments[1].text = "data privacy"
    /\ SharedTokenCount["data privacy"] = <<1, 2, 2>>
    /\ h_result.out[1] = <<>>
    /\ h_arguments[2].text = "data protection regulation"
    /\ SharedTokenCount["data protection regulation"][2] = 3
    /\ h_result.out[2] = <<SAMPLE_CITATIONS[2]>>
    /\ h_arguments[3].text = "strict data privacy regulations hurt the economy"
    /\ h_result.out[3] = <<SAMPLE_CITATIONS[2], SAMPLE_CITATIONS[3]>>

----------------------------------------------------------------------------
(* Claims about the heuristic analysis (SpecPipeline) *)

SupportWords == {"support", "agree", "good", "benefit", "positive", "favor"}
ObjectionWords == {"against", "disagree", "bad", "negative", "concern", "problem", "issue"}

\* The stance two counts decide
Outnumbering(supports, objections) ==
    IF supports > objections THEN SUPPORT
    ELSE IF objections > supports THEN OBJECTION
    ELSE NEUTRAL

RECURSIVE OccurrencesOf(_, _)
OccurrencesOf(words, text) ==
    IF words = {} THEN 0
    ELSE LET w == CHOOSE x \in words : TRUE
         IN  str_count(text, w) + OccurrencesOf(words \ {w}, text)

\* C12: the stance of an extracted Argument compares the number of
\* occurrences of support keywords in its normalized text with the number of
\* occurrences of objection keywords: more support occurrences give SUPPORT,
\* more objection occurrences OBJECTION, equal numbers (0-0 too) NEUTRAL.
C12_StanceByOccurrences ==
    h_result.op = "heuristic_analysis" =>
        \A i \in 1..Len(h_arguments) :
            h_arguments[i].type =
                Outnumbering(OccurrencesOf(SupportWords, h_arguments[i].text),
                             OccurrencesOf(ObjectionWords, h_arguments[i].text))

\* C12, as the code has it: what is compared is the number of distinct
\* support keywords occurring somewhere in the normalized text with the number
\* of distinct objection keywords occurring in it; a keyword occurring several
\* times counts once.
C12_StanceByKeywordsPresent ==
    h_result.op = "heuristic_analysis" =>
        \A i \in 1..Len(h_arguments) :
            h_arguments[i].type =
                Outnumbering(
                    Cardinality({w \in SupportWords : str_in(w, h_arguments[i].text)}),
                    Cardinality({w \in ObjectionWords : str_in(w, h_arguments[i].text)}))

\* Extracted: a text with "bad" three times against "good" and "benefit" once
\* each (SUPPORT), and "I disagree", in which "agree" occurs too (NEUTRAL).
C12_Witness ==
    /\ h_result.op = "heuristic_analysis"
    /\ Len(h_arguments) = 2
    /\ h_arguments[1].text = "bad, bad, bad but good benefit"
    /\ h_arguments[1].type = SUPPORT
    /\ h_comments[2].text = "I disagree"
    /\ h_arguments[2].type = NEUTRAL

\* the two comments of the end-to-end scenario, in either order
ScenarioComments ==
    /\ Len(h_comments) = 2
    /\ {h_comments[1].text, h_comments[2].text}
          = {"I support this good benefit", "I am against this, serious problem"}
    /\ h_comments[1].policy_clause = "Section 7(a)"
    /\ h_comments[2].policy_clause = "Section 7(a)"

\* C15: in heuristic mode, two comments on clause "Section 7(a)" with texts
\* "I support this good benefit" and "I am against this, serious problem"
\* give one SUPPORT and one OBJECTION Argument, grouped under one clause, and
\* exactly one suggestion: balanced_review, confidence 0.7, no citations.
C15_SupportAndObjectionBalance ==
    (h_result.op = "heuristic_analysis" /\ ScenarioComments) =>
        /\ Len(h_arguments) = 2
        /\ \A i \in 1..2 :
              h_arguments[i].type =
                  (IF h_comments[i].text = "I support this good benefit"
                   THEN SUPPORT ELSE OBJECTION)
        /\ DictKeys(aggregate_arguments(h_arguments)) = <<"Section 7(a)">>
        /\ Len(DictGet(aggregate_arguments(h_arguments), "Section 7(a)")) = 2
        /\ Len(h_result.out) = 1
        /\ h_result.out[1].clause = "Section 7(a)"
        /\ h_result.out[1].type = "balanced_review"
        /\ h_result.out[1].confidence = Rat(7, 10)
        /\ h_result.out[1].citations = <<>>

\* The scenario was analysed, the objecting comment first.
C15_Witness ==
    /\ h_result.op = "heuristic_analysis"
    /\ ScenarioComments
    /\ h_comments[1].text = "I am against this, serious problem"
    /\ h_arguments[1].type = OBJECTION
    /\ h_arguments[2].type = SUPPORT
    /\ Len(h_result.out) = 1

----------------------------------------------------------------------------
(* Further claims about the fusion engine (SpecFusionRuns, SpecFusion) *)

FusionOps ==
    {"aggregate_arguments", "calculate_argument_weights",
     "detect_echo_chambers", "cross_validate_arguments"}

\* C14: for an empty Argument list each of the four fusion operations
\* returns an empty mapping or list and raises nothing; no text group, of any
\* list, is empty, so the mean of confidences is never taken over no values.
C14_EmptyListGivesEmptyResults ==
    /\ (h_arguments = <<>> /\ h_result.op \in FusionOps) => h_result.out = <<>>
    /\ \A g \in 1..Len(GroupBy(h_arguments, Texts(h_arguments))) :
          GroupBy(h_arguments, Texts(h_arguments))[g].value # <<>>

\* The weights of the empty list were computed.
C14_Witness ==
    /\ h_arguments = <<>>
    /\ h_result.op = "calculate_argument_weights"
    /\ h_result.out = <<>>

\* C18: every weight calculate_argument_weights returns for Arguments with
\* confidences in [0,1] lies in [0,1].
C18_WeightWithinUnitInterval ==
    h_result.op = "calculate_argument_weights" =>
        \A k \in 1..Len(h_result.out) :
            /\ RLe(RZero, h_result.out[k].value)
            /\ RLe(h_result.out[k].value, ROne)

\* C18, as the code has it: a weight is not clamped; for confidences in
\* [0,1] it lies between 0 and 1 + 0.1 x (number of distinct comment ids among
\* the Arguments with the text), and exceeds 1 for confidence 1.0.
C18_WeightBoundedByDiversity ==
    h_result.op = "calculate_argument_weights" =>
        \A k \in 1..Len(h_arguments) :
            LET weight == DictGet(h_result.out, h_arguments[k].id)
            IN  /\ RLe(RZero, weight)
                /\ RLe(weight,
                       Rat(10 + Cardinality(SourcesOfText(h_arguments, k)), 10))
                /\ (\A j \in SameText(h_arguments, k) : h_arguments[j].confidence = ROne)
                      => RLe(Rat(11, 10), weight)

\* Two Arguments of confidence 1.0 with one text from two comments weigh 1.2.
C18_Witness ==
    /\ h_result.op = "calculate_argument_weights"
    /\ Len(h_arguments) = 2
    /\ h_arguments[1].text = h_arguments[2].text
    /\ h_arguments[1].comment_id # h_arguments[2].comment_id
    /\ h_arguments[1].confidence = ROne
    /\ h_arguments[2].confidence = ROne
    /\ DictGet(h_result.out, 1) = Rat(12, 10)

----------------------------------------------------------------------------
(* Further claims about the amendment generator (SpecAmend) *)

OfClause(arguments, clause) ==
    LET Same(arg) == arg.clause = clause
    IN  SelectSeq(arguments, Same)

\* C16: a suggestion is derived from the Arguments of its clause alone: the
\* suggestion for clause c agrees in type, summary, details, suggested_change,
\* citations and confidence with the one suggestion made for the list reduced
\* to the Arguments of c, so any two lists with the same Arguments for c in the
\* same order agree on it, whatever else they hold.
C16_SuggestionFromOwnClauseOnly ==
    h_result.op = "suggest_amendments" =>
        \A i \in 1..Len(h_result.out) :
            LET whole == h_result.out[i]
                alone == suggest_amendments(OfClause(h_arguments, whole.clause), 0)
            IN  /\ Len(alone) = 1
                /\ alone[1].clause = whole.clause
                /\ alone[1].type = whole.type
                /\ alone[1].summary = whole.summary
                /\ alone[1].details = whole.details
                /\ alone[1].suggested_change = whole.suggested_change
                /\ alone[1].citations = whole.citations
                /\ alone[1].confidence = whole.confidence

\* Two clauses, the first with two OBJECTION Arguments and the second with an
\* OBJECTION Argument of other themes and citations: two objection responses
\* that differ in summary and citations.
C16_Witness ==
    /\ h_result.op = "suggest_amendments"
    /\ Len(h_arguments) = 3
    /\ Len(h_result.out) = 2
    /\ Len(OfClause(h_arguments, h_result.out[1].clause)) = 2
    /\ h_result.out[1].type = "objection_response"
    /\ h_result.out[2].type = "objection_response"
    /\ h_result.out[1].summary # h_result.out[2].summary
    /\ h_result.out[1].citations # <<>>
    /\ h_result.out[2].citations # <<>>
    /\ h_result.out[1].citations # h_result.out[2].citations

\* The themes of the OBJECTION Arguments of a clause, one entry per mention
ObjectionMentions(arguments, clause) ==
    LET objecting == {k \in 1..Len(arguments) :
                         arguments[k].clause = clause /\ arguments[k].type = OBJECTION}
        UpTo(k) == IF k \in objecting THEN arguments[k].themes ELSE <<>>
    IN  FlattenSeq([k \in 1..Len(arguments) |-> UpTo(k)])

\* The at most 3 most mentioned themes: more mentions first, among equally
\* often mentioned themes the one mentioned first
TopMentioned(mentions) ==
    LET themes == Range(mentions)
        Count(t) == Cardinality({j \in 1..Len(mentions) : mentions[j] = t})
        First(t) == SetMin({j \in 1..Len(mentions) : mentions[j] = t})
        Before(a, b) == Count(a) > Count(b) \/ (Count(a) = Count(b) /\ First(a) < First(b))
        RankOf(t) == Cardinality({u \in themes : Before(u, t)}) + 1
    IN  [r \in 1..Min2(3, Cardinality(themes)) |-> CHOOSE t \in themes : RankOf(t) = r]

RECURSIVE CommaList(_)
CommaList(names) ==
    IF names = <<>> THEN ""
    ELSE IF Len(names) = 1 THEN names[1]
    ELSE names[1] \o ", " \o CommaList(Tail(names))

\* C19: summary, details and suggested_change of an objection_response name
\* the at most 3 themes most frequent among the clause's OBJECTION Arguments
\* only, in descending frequency, ties in first-encountered order; when all of
\* three objecting Arguments carry theme privacy the summary contains
\* "privacy"; the confidence is 0.9.
C19_TopObjectionThemes ==
    h_result.op = "suggest_amendments" =>
        \A i \in 1..Len(h_result.out) :
            h_result.out[i].type = "objection_response" =>
                LET suggestion == h_result.out[i]
                    mentions == ObjectionMentions(h_arguments, suggestion.clause)
                    names == CommaList(TopMentioned(mentions))
                IN  /\ suggestion.summary = "Address concerns regarding " \o names
                    /\ suggestion.details =
                          "This clause has received significant objection, primarily concerning "
                              \o names \o ". Consider revising to address these concerns."
                    /\ suggestion.suggested_change =
                          "Revise clause " \o suggestion.clause \o " to better address "
                              \o names \o " concerns"
                    /\ suggestion.confidence = Rat(9, 10)
                    /\ (\A k \in 1..Len(h_arguments) :
                            /\ h_arguments[k].clause = suggestion.clause
                            /\ h_arguments[k].type = OBJECTION
                            /\ "privacy" \in Range(h_arguments[k].themes))
                          => str_in("privacy", suggestion.summary)

\* Three OBJECTION Arguments on one clause, all with theme privacy, two also
\* with legal and one with economic: the summary names them in that order.
C19_Witness ==
    /\ h_result.op = "suggest_amendments"
    /\ Len(h_arguments) = 3
    /\ \A k \in 1..3 : /\ h_arguments[k].type = OBJECTION
                        /\ h_arguments[k].clause = "Section 2"
                        /\ "privacy" \in Range(h_arguments[k].themes)
    /\ h_result.out[1].summary = "Address concerns regarding privacy, legal, economic"
    /\ h_result.out[1].confidence = Rat(9, 10)

\* The citations the oracle returns for the OBJECTION Arguments of a clause,
\* concatenated in argument order
ObjectionCitations(arguments, clause) ==
    LET Found(k) == IF arguments[k].clause = clause /\ arguments[k].type = OBJECTION
                    THEN find_citations(arguments[k]) ELSE <<>>
    IN  FlattenSeq([k \in 1..Len(arguments) |-> Found(k)])

\* The positions of a citation list holding the first occurrence of an id
FirstOccurrences(citations) ==
    {j \in 1..Len(citations) : \A i \in 1..(j - 1) : citations[i].id # citations[j].id}

\* The p-th smallest element of a set of numbers
Nth(S, p) == CHOOSE x \in S : Cardinality({y \in S : y < x}) = p - 1

\* C20: the citations of an objection_response are the oracle's citations for
\* the clause's OBJECTION Arguments in argument order, the first occurrence of
\* every citation id only, cut to the first 3; a suggestion of any type has at
\* most 3 citations with pairwise distinct ids; the oracle is called for the
\* OBJECTION Arguments of objection_response clauses and for nothing else.
C20_ObjectionCitations ==
    h_result.op = "suggest_amendments" =>
        /\ \A i \in 1..Len(h_result.out) :
              LET suggestion == h_result.out[i]
                  raw == ObjectionCitations(h_arguments, suggestion.clause)
                  kept == FirstOccurrences(raw)
              IN  /\ Len(suggestion.citations) <= 3
                  /\ \A a \in 1..Len(suggestion.citations) :
                        \A b \in 1..Len(suggestion.citations) :
                            a # b => suggestion.citations[a].id # suggestion.citations[b].id
                  /\ IF suggestion.type = "objection_response"
                     THEN /\ Len(suggestion.citations) = Min2(3, Cardinality(kept))
                          /\ \A p \in 1..Len(suggestion.citations) :
                                suggestion.citations[p] = raw[Nth(kept, p)]
                     ELSE suggestion.citations = <<>>
        /\ \A k \in 1..Len(h_arguments) :
              (h_arguments[k] \in Range(h_replies)) <=>
                  /\ h_arguments[k].type = OBJECTION
                  /\ \E i \in 1..Len(h_result.out) :
                        /\ h_result.out[i].clause = h_arguments[k].clause
                        /\ h_result.out[i].type = "objection_response"
        /\ \A c \in 1..Len(h_replies) : h_replies[c] \in Range(h_arguments)

\* A clause with two OBJECTION Arguments, both matching the second and third
\* citation, and a SUPPORT Argument matching the first: the two citations are
\* listed once each and the oracle was asked about the two objections only.
C20_Witness ==
    /\ h_result.op = "suggest_amendments"
    /\ Len(h_arguments) = 3
    /\ Len(h_result.out) = 1
    /\ h_arguments[1].type = OBJECTION
    /\ h_arguments[2].type = SUPPORT
    /\ h_arguments[3].type = OBJECTION
    /\ find_citations(h_arguments[1]) = <<SAMPLE_CITATIONS[2], SAMPLE_CITATIONS[3]>>
    /\ find_citations(h_arguments[2]) = <<SAMPLE_CITATIONS[1]>>
    /\ find_citations(h_arguments[3]) = <<SAMPLE_CITATIONS[2], SAMPLE_CITATIONS[3]>>
    /\ h_result.out[1].citations = <<SAMPLE_CITATIONS[2], SAMPLE_CITATIONS[3]>>
    /\ h_replies = <<h_arguments[1], h_arguments[3]>>

----------------------------------------------------------------------------
(* Further claims about the extractors (SpecExtract) *)

\* C17: the Argument the LLM extractor builds locally when extraction fails
\* for a comment has the text, stance, themes and confidence of the Argument
\* the heuristic extract_arguments produces for that comment.
C17_FallbackEqualsHeuristic ==
    h_result.op = "gemini_extract_arguments" =>
        \A i \in 1..Len(h_comments) :
            extract_single_argument(h_comments[i], h_replies[i], 0).raised =>
                LET heuristic == extract_arguments(<<h_comments[i]>>, 0)[1]
                IN  /\ h_result.out[i].text = heuristic.text
                    /\ h_result.out[i].type = heuristic.type
                    /\ h_result.out[i].themes = heuristic.themes
                    /\ h_result.out[i].confidence = heuristic.confidence

----------------------------------------------------------------------------
(* Claims about the heuristic extractor's text functions (SpecText) *)

ThemeOrder == <<"privacy", "economic", "legal", "technical", "implementation">>

ThemePhrases(theme) ==
    IF theme = "privacy" THEN {"privacy", "personal data", "surveillance", "monitoring"}
    ELSE IF theme = "economic" THEN {"cost", "expense", "money", "financial", "economy"}
    ELSE IF theme = "legal" THEN {"law", "legal", "constitution", "rights"}
    ELSE IF theme = "technical" THEN {"technology", "technical", "system", "software"}
    ELSE {"implement", "process", "procedure", "execute"}

PhraseIn(theme, text) == \E phrase \in ThemePhrases(theme) : str_in(phrase, text)

PositionIn(order, theme) == CHOOSE r \in 1..Len(order) : order[r] = theme

\* C21: the themes of an extracted Argument hold each of privacy, economic,
\* legal, technical, implementation iff one of its keyword phrases is a
\* substring of the normalized text, in that order and at most once; the list
\* is never empty and is exactly <<"general">> iff no phrase matches.
C21_ThemesByPhrase ==
    h_result.op = "extract_arguments" =>
        \A i \in 1..Len(h_result.out) :
            LET text == h_result.out[i].text
                themes == h_result.out[i].themes
                matched == {th \in Range(ThemeOrder) : PhraseIn(th, text)}
            IN  /\ themes # <<>>
                /\ Cardinality(Range(themes)) = Len(themes)
                /\ \A th \in Range(ThemeOrder) : (th \in Range(themes)) <=> (th \in matched)
                /\ (themes = <<"general">>) <=> (matched = {})
                /\ ("general" \in Range(themes)) => (Len(themes) = 1)
                /\ Range(themes) \subseteq Range(ThemeOrder) \cup {"general"}
                /\ \A a \in 1..Len(themes) : \A b \in 1..Len(themes) :
                      (a < b /\ themes[a] # "general" /\ themes[b] # "general")
                          => PositionIn(ThemeOrder, themes[a]) < PositionIn(ThemeOrder, themes[b])

\* Extracted: a text naming privacy, cost and law in another order than the
\* themes are listed in, and a text matching no phrase.
C21_Witness ==
    /\ h_result.op = "extract_arguments"
    /\ Len(h_comments) = 2
    /\ h_comments[1].text = "Bad law: cost & privacy"
    /\ h_result.out[1].themes = <<"privacy", "economic", "legal">>
    /\ h_comments[2].text = "No opinion"
    /\ h_result.out[2].themes = <<"general">>

\* 0.5 + (0.2 if not NEUTRAL) + min(0.1 x themes, 0.3) + min(2 x density, 0.2)
\* for a normalized text, before clamping
ConfidenceSum(text, type, themes) ==
    LET hits == OccurrencesOf(SupportWords, text) + OccurrencesOf(ObjectionWords, text)
        words == Len(str_split(text))
        twice_density == Rat(2 * hits, Max2(words, 1))
        stance_term == IF type # NEUTRAL THEN Rat(2, 10) ELSE RZero
    IN  RAdd(RAdd(RAdd(Rat(5, 10), stance_term), RMin(Rat(Len(themes), 10), Rat(3, 10))),
             RMin(twice_density, Rat(2, 10)))

\* C22: in heuristic mode an Argument's confidence is the clamp to [0,1] of
\* 0.5 + (0.2 if its stance is not NEUTRAL) + min(0.1 x number of themes, 0.3)
\* + min(2 x keyword_density, 0.2), keyword_density being the number of
\* substring occurrences of support and objection keywords divided by
\* max(word count, 1); it is never below 0.6.
C22_HeuristicConfidence ==
    h_result.op = "extract_arguments" =>
        \A i \in 1..Len(h_result.out) :
            LET argument == h_result.out[i]
                sum == ConfidenceSum(argument.text, argument.type, argument.themes)
            IN  /\ argument.confidence = RMax(RZero, RMin(ROne, sum))
                /\ RLe(Rat(6, 10), argument.confidence)

\* Extracted: a text whose terms add up to 1.2 (clamped to 1.0), and one with
\* a single keyword in thirteen words (0.5 + 0.2 + 0.1 + 2/13).
C22_Witness ==
    /\ h_result.op = "extract_arguments"
    /\ Len(h_comments) = 2
    /\ h_comments[1].text = "Bad law: cost & privacy"
    /\ ConfidenceSum(h_result.out[1].text, h_result.out[1].type, h_result.out[1].themes)
          = Rat(12, 10)
    /\ h_result.out[1].confidence = ROne
    /\ h_comments[2].text = "I think this is a good idea for all of us here today"
    /\ h_result.out[2].confidence = Rat(62, 65)

\* C26: normalization is idempotent: the text of an extracted Argument is
\* left as it is by preprocess_text, and has no two consecutive whitespace
\* characters.
C26_NormalizationIdempotent ==
    h_result.op = "extract_arguments" =>
        \A i \in 1..Len(h_result.out) :
            LET text == h_result.out[i].text
            IN  /\ preprocess_text(text) = text
                /\ \A c \in 1..(Len(text) - 1) :
                      ~(IsSpace(Char(text, c)) /\ IsSpace(Char(text, c + 1)))

----------------------------------------------------------------------------
(* Claims about aggregation (SpecFusion) *)

\* The places (group, position) at which an Argument stands in a grouping
PlacesOf(grouping, argument) ==
    {<<g, p>> \in (1..Len(grouping)) \X (1..MaxArguments + 1) :
        p <= Len(grouping[g].value) /\ grouping[g].value[p] = argument}

IndexOf(arguments, argument) == CHOOSE k \in 1..Len(arguments) : arguments[k] = argument

\* C23: aggregate_arguments partitions its input: every Argument stands in
\* exactly one list, the one keyed by its clause; the keys are exactly the
\* clauses of the input, each once; every list keeps the input order; the
\* list lengths add up to the input length.
C23_AggregationPartitions ==
    h_result.op = "aggregate_arguments" =>
        LET out == h_result.out
        IN  /\ Cardinality(Range(DictKeys(out))) = Len(out)
            /\ Range(DictKeys(out)) = Range(Clauses(h_arguments))
            /\ \A k \in 1..Len(h_arguments) :
                  /\ Cardinality(PlacesOf(out, h_arguments[k])) = 1
                  /\ \A place \in PlacesOf(out, h_arguments[k]) :
                        out[place[1]].key = h_arguments[k].clause
            /\ \A g \in 1..Len(out) :
                  /\ \A a \in 1..Len(out[g].value) :
                        out[g].value[a] \in Range(h_arguments)
                  /\ \A a \in 1..Len(out[g].value) : \A b \in 1..Len(out[g].value) :
                        a < b => IndexOf(h_arguments, out[g].value[a])
                                   < IndexOf(h_arguments, out[g].value[b])
            /\ SeqSum([g \in 1..Len(out) |-> Len(out[g].value)]) = Len(h_arguments)

\* Three Arguments on clauses "Section 2", "Section 7(a)", "Section 2" were
\* grouped: two lists, the first holding the first and the third Argument.
C23_Witness ==
    /\ h_result.op = "aggregate_arguments"
    /\ Clauses(h_arguments) = <<"Section 2", "Section 7(a)", "Section 2">>
    /\ DictKeys(h_result.out) = <<"Section 2", "Section 7(a)">>
    /\ h_result.out[1].value = <<h_arguments[1], h_arguments[3]>>
    /\ h_result.out[2].value = <<h_arguments[2]>>

----------------------------------------------------------------------------
(* Claims about the compute manager (SpecAssess) *)

\* C24: assess_requirements depends on the comment count n alone: n < 1000
\* gives local / 512MB, 1000 <= n < 10000 local / 1GB, 10000 <= n < 100000
\* hybrid / 2GB, n >= 100000 cloud / 4GB+; num_comments is n, and the comment
\* list is left as it was.
C24_FourSizeBands ==
    [][h_result'.op = "assess_requirements" =>
          LET n == BatchedLen(h_comments)
              out == h_result'.out[1]
          IN  /\ h_comments' = h_comments
              /\ out.num_comments = n
              /\ n < 1000 =>
                    (out.compute_type = "local" /\ out.memory_required = "512MB")
              /\ (1000 <= n /\ n < 10000) =>
                    (out.compute_type = "local" /\ out.memory_required = "1GB")
              /\ (10000 <= n /\ n < 100000) =>
                    (out.compute_type = "hybrid" /\ out.memory_required = "2GB")
              /\ n >= 100000 =>
                    (out.compute_type = "cloud" /\ out.memory_required = "4GB+")
      ]_vars

\* Exactly 100000 comments, in two batches, were assessed as cloud / 4GB+.
C24_Witness ==
    /\ h_result.op = "assess_requirements"
    /\ Len(h_comments) = 2
    /\ BatchedLen(h_comments) = 100000
    /\ h_result.out[1].num_comments = 100000
    /\ h_result.out[1].compute_type = "cloud"
    /\ h_result.out[1].memory_required = "4GB+"

----------------------------------------------------------------------------
(* Further claims about the API (Spec) *)

\* C25: the citation ids on every stored Argument are exactly the ids of the
\* citations the oracle returns for its text, whatever citations the LLM reply
\* supplied, so each of them exists in the static citation table.
C25_StoredCitationsFromOracle ==
    \A k \in 1..Len(stored_arguments) :
        /\ stored_arguments[k].citations = Ids(find_citations(stored_arguments[k]))
        /\ \A c \in 1..Len(stored_arguments[k].citations) :
              validate_citation(stored_arguments[k].citations[c])

\* An analysis stored an Argument taken from an LLM reply (confidence 0.95,
\* citation "Some v. Case"): it carries the oracle's two citation ids instead.
C25_Witness ==
    /\ response.endpoint = "analyze_comments"
    /\ response.status = 200
    /\ Len(stored_arguments) = 1
    /\ stored_arguments[1].type = OBJECTION
    /\ stored_arguments[1].confidence = Rat(19, 20)
    /\ stored_arguments[1].citations = <<"cit_002", "cit_003">>

\* C27: the stored citation list holds every citation id at most once, so it
\* is never longer than the static citation table.
C27_StoredCitationsUnique ==
    /\ \A a \in 1..Len(stored_citations) : \A b \in 1..Len(stored_citations) :
          a # b => stored_citations[a].id # stored_citations[b].id
    /\ Len(stored_citations) <= Len(SAMPLE_CITATIONS)

\* A list of suggestions without the ids drawn for them
WithoutIds(suggestions) ==
    [k \in 1..Len(suggestions) |-> [suggestions[k] EXCEPT !.id = 0]]

Completed(resp, endpoint) == resp.endpoint = endpoint /\ resp.status = 200

\* C28: the suggestions a completed analysis returns and the suggestions
\* every later read returns are, ids apart, those of the stored Arguments,
\* and only a completed analysis changes the stored Arguments; so a read
\* returns what the last analysis returned, whatever uploads and ingestions
\* came between.
C28_ReadRepeatsAnalysis ==
    [][/\ Completed(response', "analyze_comments") =>
             WithoutIds(response'.body[1].suggestions)
                 = WithoutIds(suggest_amendments(stored_arguments', 0))
       /\ ~Completed(response', "analyze_comments") =>
             stored_arguments' = stored_arguments
       /\ Completed(response', "get_amendment_suggestions") =>
             WithoutIds(response'.body) = WithoutIds(suggest_amendments(stored_arguments, 0))
       /\ (Completed(response, "analyze_comments")
              /\ Completed(response', "get_amendment_suggestions")) =>
             WithoutIds(response'.body) = WithoutIds(response.body[1].suggestions)
      ]_vars

\* Suggestions were read after an analysis of one comment and the upload of
\* a second comment that followed it.
C28_Witness ==
    /\ Completed(response, "get_amendment_suggestions")
    /\ Len(stored_comments) = 2
    /\ Len(stored_arguments) = 1
    /\ stored_arguments[1].comment_id = stored_comments[1].id
    /\ Len(response.body) = 1

\* C29: a plugin ingestion refused because the plugin is not a registered
\* ingestor or cannot handle the source type leaves the whole store, the
\* stored Gemini key included, as it was.
C29_RefusedIngestionLeavesStore ==
    [][(/\ response'.endpoint = "ingest_with_plugin"
        /\ response'.detail \in {"plugin not found", "cannot handle this source type"})
          => (store' = store /\ stored_gemini_key' = stored_gemini_key)
      ]_vars

\* C30: an ingestion request naming a plugin that is not a registered
\* ingestor is answered 404, one whose plugin cannot handle the source type 400.
C30_UnknownPluginIs404 ==
    response.endpoint = "ingest_with_plugin" =>
        /\ response.detail = "plugin not found" => response.status = 404
        /\ response.detail = "cannot handle this source type" => response.status = 400

====
